---- MODULE Spec2Model ----
(***************************************************************************)
(* Model of the voice layer of xchess: the voice-command move parser      *)
(* (src/src/ts/voice/MoveParser.ts), the spoken confirmations             *)
(* (src/src/ts/voice/TTSConfirmation.ts) and the bridge that connects     *)
(* them to the game (src/src/ts/voice/VoiceBridge.ts).                    *)
(*                                                                         *)
(* A JavaScript string is modelled as a sequence of one-character strings, *)
(* so that the regular expressions, String.includes, String.startsWith,    *)
(* split and join of the source are computed character by character.      *)
(* Confidence values are modelled in hundredths (0.95 is 95).             *)
(***************************************************************************)
EXTENDS Integers, Sequences, FiniteSets, TLC

\* op is the latest call or handler that ran
VARIABLES op
\* MoveParser: the arguments of the call, the normalized text, the result
VARIABLES transcript, context, cleaned, result
\* TTSConfirmation: the SAN to confirm, the enabled field, the arguments of
\* the setEnabled calls so far, the calls the latest step made on synth
VARIABLES sanToConfirm, enabled, settings, synthCalls
\* VoiceBridge: the currentGameState and isVoiceEnabled fields, the number
\* of recordings whose speech-to-text is awaited, the events the latest
\* step of the bridge emitted on the GameBus
VARIABLES currentGameState, isVoiceEnabled, pending, emitted
\* VoiceBridge.isInitialized; VoiceUI: whether create() has run, the
\* currentState field, whether an error auto-clear timer is scheduled
VARIABLES isInitialized, uiCreated, uiState, errorTimer
\* an initialize() call waits for the permission prompt; VoiceCapture: the
\* mediaStream is set, the capture that is recording (0: none, isRecording
\* false), the captures started so far, the recorders whose onstop is due
VARIABLES awaitingPermission, hasStream, recording, captures, stopped
\* the capture each scheduled 10 s timeout was set for, what the latest
\* stop stopped, and the initialize()/setVoiceEnabled() outcomes so far
VARIABLES timers, lastStop, voiceHistory
\* BoardAdapter: the piece map given, the FEN built from it, the map read back
VARIABLES pieceMap, fen, convertedMap
\* GameBus: the listeners field, the on/off calls so far, the arguments of
\* the latest emit and the callback invocations it made
VARIABLES listeners, busCalls, busEvent, invoked

parserVars == <<transcript, context, cleaned, result>>
ttsVars == <<sanToConfirm, enabled, settings, synthCalls>>
uiVars == <<uiCreated, uiState, errorTimer>>
captureVarsButStop == <<hasStream, recording, captures, stopped, timers>>
captureVars == <<captureVarsButStop, lastStop>>
bridgeVars == <<currentGameState, isVoiceEnabled, pending, emitted,
                isInitialized, awaitingPermission, voiceHistory, uiVars, captureVars>>
boardVars == <<pieceMap, fen, convertedMap>>
busVars == <<listeners, busCalls, busEvent, invoked>>
vars == <<op, parserVars, ttsVars, bridgeVars, boardVars, busVars>>

(***************************************************************************)
(* Bounds of the model.                                                    *)
(***************************************************************************)
\* longest transcript, in words, built freely from Vocabulary
MaxWords == 2
\* longest legal-move list built freely from MovePool
MaxMoves == 2

(***************************************************************************)
(* JavaScript values that are not strings.                                 *)
(***************************************************************************)
\* the value of a capture group that did not take part, of a missing key
Undefined == <<"undefined">>
\* the san of a result that carries no move
Null == <<"null">>

(***************************************************************************)
(* Characters.                                                             *)
(***************************************************************************)
LowerLetters ==
  <<"a","b","c","d","e","f","g","h","i","j","k","l","m",
    "n","o","p","q","r","s","t","u","v","w","x","y","z">>
UpperLetters ==
  <<"A","B","C","D","E","F","G","H","I","J","K","L","M",
    "N","O","P","Q","R","S","T","U","V","W","X","Y","Z">>
Digits == {"0","1","2","3","4","5","6","7","8","9"}
Files == {"a","b","c","d","e","f","g","h"}
Ranks == {"1","2","3","4","5","6","7","8"}

Range(s) == {s[i] : i \in 1..Len(s)}

\* String.prototype.toLowerCase, one character
LowerChar(c) ==
  IF \E i \in 1..26 : UpperLetters[i] = c
  THEN LowerLetters[CHOOSE i \in 1..26 : UpperLetters[i] = c]
  ELSE c
\* String.prototype.toUpperCase, one character
UpperChar(c) ==
  IF \E i \in 1..26 : LowerLetters[i] = c
  THEN UpperLetters[CHOOSE i \in 1..26 : LowerLetters[i] = c]
  ELSE c
toLowerCase(s) == [i \in 1..Len(s) |-> LowerChar(s[i])]
toUpperCase(s) == [i \in 1..Len(s) |-> UpperChar(s[i])]

\* the regular expression classes \w and \s
IsWordChar(c) ==
  c \in Range(LowerLetters) \cup Range(UpperLetters) \cup Digits \cup {"_"}
IsSpace(c) == c \in {" ", "\t", "\n"}

(***************************************************************************)
(* String helpers.                                                         *)
(***************************************************************************)
\* s.substring(i - 1)
From(s, i) == SubSeq(s, i, Len(s))
\* s.startsWith(p)
startsWith(s, p) == Len(s) >= Len(p) /\ SubSeq(s, 1, Len(p)) = p
\* s.includes(p)
includes(s, p) ==
  \E i \in 1..(Len(s) - Len(p) + 1) : SubSeq(s, i, i + Len(p) - 1) = p
\* s with a leading run of white space removed: what \s* consumes
RECURSIVE SkipSpaces(_)
SkipSpaces(s) ==
  IF s # <<>> /\ IsSpace(s[1]) THEN SkipSpaces(Tail(s)) ELSE s

\* text.split(/\s+/): the pieces between the maximal runs of white space;
\* a leading or trailing run leaves an empty piece, '' splits into ['']
RECURSIVE SplitFrom(_, _)
SplitFrom(s, word) ==
  IF s = <<>> THEN <<word>>
  ELSE IF IsSpace(s[1]) THEN <<word>> \o SplitFrom(SkipSpaces(s), <<>>)
  ELSE SplitFrom(Tail(s), Append(word, s[1]))
split(s) == SplitFrom(s, <<>>)

\* words.join(' ')
RECURSIVE join(_)
join(words) ==
  IF words = <<>> THEN <<>>
  ELSE IF Len(words) = 1 THEN words[1]
  ELSE words[1] \o <<" ">> \o join(Tail(words))

(***************************************************************************)
(* The vocabulary tables.                                                  *)
(***************************************************************************)
\* MoveParser.homophones: the pairs <<key, value>> of the object literal
homophones ==
  {
    <<<<"w","o","n">>, <<"1">>>>,
    <<<<"o","n","e">>, <<"1">>>>,
    <<<<"t","o">>, <<"2">>>>,
    <<<<"t","o","o">>, <<"2">>>>,
    <<<<"t","w","o">>, <<"2">>>>,
    <<<<"t","h","r","e","e">>, <<"3">>>>,
    <<<<"t","r","e","e">>, <<"3">>>>,
    <<<<"f","o","r">>, <<"4">>>>,
    <<<<"f","o","u","r">>, <<"4">>>>,
    <<<<"f","o","r","e">>, <<"4">>>>,
    <<<<"f","i","v","e">>, <<"5">>>>,
    <<<<"f","i","f","e">>, <<"5">>>>,
    <<<<"s","i","x">>, <<"6">>>>,
    <<<<"s","i","c","k">>, <<"6">>>>,
    <<<<"s","e","v","e","n">>, <<"7">>>>,
    <<<<"a","t","e">>, <<"8">>>>,
    <<<<"e","i","g","h","t">>, <<"8">>>>,
    <<<<"a">>, <<"a">>>>,
    <<<<"a","y">>, <<"a">>>>,
    <<<<"b","e">>, <<"b">>>>,
    <<<<"b","e","e">>, <<"b">>>>,
    <<<<"s","e","e">>, <<"c">>>>,
    <<<<"s","e","a">>, <<"c">>>>,
    <<<<"d","e","e">>, <<"d">>>>,
    <<<<"e">>, <<"e">>>>,
    <<<<"e","e">>, <<"e">>>>,
    <<<<"f">>, <<"f">>>>,
    <<<<"e","f">>, <<"f">>>>,
    <<<<"g">>, <<"g">>>>,
    <<<<"g","e","e">>, <<"g">>>>,
    <<<<"h">>, <<"h">>>>,
    <<<<"a","i","t","c","h">>, <<"h">>>>,
    <<<<"n","i","g","h","t">>, <<"k","n","i","g","h","t">>>>,
    <<<<"n","i","t","e">>, <<"k","n","i","g","h","t">>>>,
    <<<<"k","i","n","g">>, <<"k","i","n","g">>>>,
    <<<<"k">>, <<"k","i","n","g">>>>,
    <<<<"q","u","e","e","n">>, <<"q","u","e","e","n">>>>,
    <<<<"q">>, <<"q","u","e","e","n">>>>,
    <<<<"r","o","o","k">>, <<"r","o","o","k">>>>,
    <<<<"c","a","s","t","l","e">>, <<"r","o","o","k">>>>,
    <<<<"t","o","w","e","r">>, <<"r","o","o","k">>>>,
    <<<<"b","i","s","h","o","p">>, <<"b","i","s","h","o","p">>>>,
    <<<<"b">>, <<"b","i","s","h","o","p">>>>,
    <<<<"p","a","w","n">>, <<"p","a","w","n">>>>,
    <<<<"p">>, <<"p","a","w","n">>>>,
    <<<<"p","o","n","d">>, <<"p","a","w","n">>>>,
    <<<<"t","a","k","e","s">>, <<"t","a","k","e","s">>>>,
    <<<<"t","a","k","e">>, <<"t","a","k","e","s">>>>,
    <<<<"c","a","p","t","u","r","e","s">>, <<"t","a","k","e","s">>>>,
    <<<<"c","a","p","t","u","r","e">>, <<"t","a","k","e","s">>>>,
    <<<<"x">>, <<"t","a","k","e","s">>>>,
    <<<<"c","r","o","s","s">>, <<"t","a","k","e","s">>>>,
    <<<<"t","i","m","e","s">>, <<"t","a","k","e","s">>>>,
    <<<<"c","h","e","c","k">>, <<"c","h","e","c","k">>>>,
    <<<<"c","h","e","c","k","m","a","t","e">>, <<"c","h","e","c","k","m","a","t","e">>>>,
    <<<<"m","a","t","e">>, <<"c","h","e","c","k","m","a","t","e">>>>,
    <<<<"c","a","s","t","l","e","s">>, <<"c","a","s","t","l","e">>>>,
    <<<<"s","h","o","r","t">>, <<"s","h","o","r","t">>>>,
    <<<<"k","i","n","g"," ","s","i","d","e">>, <<"s","h","o","r","t">>>>,
    <<<<"k","i","n","g","s","i","d","e">>, <<"s","h","o","r","t">>>>,
    <<<<"l","o","n","g">>, <<"l","o","n","g">>>>,
    <<<<"q","u","e","e","n"," ","s","i","d","e">>, <<"l","o","n","g">>>>,
    <<<<"q","u","e","e","n","s","i","d","e">>, <<"l","o","n","g">>>>,
    <<<<"m","o","v","e">>, <<>>>>,
    <<<<"m","o","v","e","s">>, <<>>>>,
    <<<<"g","o">>, <<>>>>,
    <<<<"g","o","e","s">>, <<>>>>,
    <<<<"t","h","e">>, <<>>>>,
    <<<<"a","n">>, <<>>>>,
    <<<<"p","i","e","c","e">>, <<>>>>,
    <<<<"p","i","e","c","e","s">>, <<>>>>
  }

\* the key is an own property of the table (the transcripts of the model
\* hold no member name of Object.prototype, such as 'constructor', for
\* which table[key] is an inherited member)
HasKey(table, key) == \E kv \in table : kv[1] = key
\* table[key], Undefined for a missing key
Lookup(table, key) ==
  IF HasKey(table, key) THEN (CHOOSE kv \in table : kv[1] = key)[2]
  ELSE Undefined

\* MoveParser.pieceSymbols
pieceSymbols ==
  {
    <<<<"k","i","n","g">>, <<"K">>>>,
    <<<<"q","u","e","e","n">>, <<"Q">>>>,
    <<<<"r","o","o","k">>, <<"R">>>>,
    <<<<"b","i","s","h","o","p">>, <<"B">>>>,
    <<<<"k","n","i","g","h","t">>, <<"N">>>>,
    <<<<"p","a","w","n">>, <<>>>>
  }

\* a JavaScript value is falsy: undefined, null or the empty string
Falsy(v) == v \in {Undefined, Null, <<>>}
\* a || b
OrElse(a, b) == IF Falsy(a) THEN b ELSE a

(***************************************************************************)
(* cleanTranscript                                                         *)
(***************************************************************************)
\* text.toLowerCase().replace(/[^\w\s]/g, ' ')
StripPunctuation(text) ==
  [i \in 1..Len(text) |->
     LET c == LowerChar(text[i])
     IN  IF IsWordChar(c) \/ IsSpace(c) THEN c ELSE " "]

\* word => this.homophones[word] || word
Substitute(word) == OrElse(Lookup(homophones, word), word)

cleanTranscript(text) ==
  LET words == split(StripPunctuation(text))
      mapped == [i \in 1..Len(words) |-> Substitute(words[i])]
      cleanedWords == SelectSeq(mapped, LAMBDA word : word # <<>>)
  IN  join(cleanedWords)

(***************************************************************************)
(* String literals of the strategies.                                      *)
(***************************************************************************)
Knight == <<"k","n","i","g","h","t">>
Queen == <<"q","u","e","e","n">>
King == <<"k","i","n","g">>
Rook == <<"r","o","o","k">>
Bishop == <<"b","i","s","h","o","p">>
Pawn == <<"p","a","w","n">>
Takes == <<"t","a","k","e","s">>
Check == <<"c","h","e","c","k">>
Checkmate == <<"c","h","e","c","k","m","a","t","e">>
Castle == <<"c","a","s","t","l","e">>
Short == <<"s","h","o","r","t">>
Long == <<"l","o","n","g">>
KingSide == <<"k","i","n","g"," ","s","i","d","e">>
QueenSide == <<"q","u","e","e","n"," ","s","i","d","e">>
ShortCastle == <<"O","-","O">>
LongCastle == <<"O","-","O","-","O">>
CouldNotParse ==
  <<"C","o","u","l","d"," ","n","o","t"," ","p","a","r","s","e"," ",
    "c","h","e","s","s"," ","m","o","v","e">>

(***************************************************************************)
(* The three regular expressions of parseStandardMove.  A match is the     *)
(* record of its capture groups; a group that took no part is Undefined.   *)
(***************************************************************************)
NoMatch ==
  [matched |-> FALSE, g1 |-> Undefined, g2 |-> Undefined, g3 |-> Undefined]

\* the common tail ([a-h][1-8])(?:\s+(check|checkmate))?$ applied to s
SquareThenCheck(s, g1) ==
  IF Len(s) >= 2 /\ s[1] \in Files /\ s[2] \in Ranks
  THEN LET rest == From(s, 3)
           word == SkipSpaces(rest)
       IN  IF rest = <<>>
           THEN [matched |-> TRUE, g1 |-> g1, g2 |-> SubSeq(s, 1, 2),
                 g3 |-> Undefined]
           ELSE IF IsSpace(rest[1]) /\ word \in {Check, Checkmate}
           THEN [matched |-> TRUE, g1 |-> g1, g2 |-> SubSeq(s, 1, 2),
                 g3 |-> word]
           ELSE NoMatch
  ELSE NoMatch

\* \s*(?:2|takes)\s* followed by the common tail
ConnectorThenSquare(s, g1) ==
  LET after == SkipSpaces(s)
  IN  IF startsWith(after, <<"2">>)
      THEN SquareThenCheck(SkipSpaces(From(after, 2)), g1)
      ELSE IF startsWith(after, Takes)
      THEN SquareThenCheck(SkipSpaces(From(after, Len(Takes) + 1)), g1)
      ELSE NoMatch

PieceNames == <<Knight, Queen, King, Rook, Bishop, Pawn>>

\* /^(knight|queen|king|rook|bishop|pawn)?\s*(?:2|takes)\s*([a-h][1-8])
\*   (?:\s+(check|checkmate))?$/
Pattern1(s) ==
  LET withPiece(i) ==
        IF startsWith(s, PieceNames[i])
        THEN ConnectorThenSquare(From(s, Len(PieceNames[i]) + 1), PieceNames[i])
        ELSE NoMatch
      hits == {i \in 1..Len(PieceNames) : withPiece(i).matched}
  IN  IF hits # {}
      THEN withPiece(CHOOSE i \in hits : \A j \in hits : i <= j)
      ELSE ConnectorThenSquare(s, Undefined)

\* /^([a-h])(?:takes\s*)?([a-h][1-8])(?:\s+(check|checkmate))?$/
Pattern2(s) ==
  IF s # <<>> /\ s[1] \in Files
  THEN LET rest == Tail(s)
           viaTakes ==
             IF startsWith(rest, Takes)
             THEN SquareThenCheck(SkipSpaces(From(rest, Len(Takes) + 1)), <<s[1]>>)
             ELSE NoMatch
       IN  IF viaTakes.matched THEN viaTakes
           ELSE SquareThenCheck(rest, <<s[1]>>)
  ELSE NoMatch

\* (?:takes\s*|x\s*)? followed by the common tail
CaptureThenSquare(s, g1) ==
  LET viaTakes ==
        IF startsWith(s, Takes)
        THEN SquareThenCheck(SkipSpaces(From(s, Len(Takes) + 1)), g1)
        ELSE NoMatch
      viaX ==
        IF startsWith(s, <<"x">>)
        THEN SquareThenCheck(SkipSpaces(From(s, 2)), g1)
        ELSE NoMatch
  IN  IF viaTakes.matched THEN viaTakes
      ELSE IF viaX.matched THEN viaX
      ELSE SquareThenCheck(s, g1)

\* /^([nqkrb])?(?:takes\s*|x\s*)?([a-h][1-8])(?:\s+(check|checkmate))?$/
Pattern3(s) ==
  LET withLetter ==
        IF s # <<>> /\ s[1] \in {"n","q","k","r","b"}
        THEN CaptureThenSquare(Tail(s), <<s[1]>>)
        ELSE NoMatch
  IN  IF withLetter.matched THEN withLetter
      ELSE CaptureThenSquare(s, Undefined)

(***************************************************************************)
(* The strategies.  A ParseContext is modelled by its legalMoves; the      *)
(* parser reads no other field.  An absent context has present = FALSE.    *)
(***************************************************************************)
NoContext == [present |-> FALSE, legalMoves |-> <<>>]
Context(moves) == [present |-> TRUE, legalMoves |-> moves]

\* a ChessMoveResult; a result built without an error has error Undefined
MoveResult(san, confidence, originalText) ==
  [san |-> san, confidence |-> confidence, originalText |-> originalText,
   error |-> Undefined]

\* match[1] ? this.pieceSymbols[match[1]] || match[1].toUpperCase() : ''
PieceOf(g1) ==
  IF Falsy(g1) THEN <<>>
  ELSE OrElse(Lookup(pieceSymbols, g1), toUpperCase(g1))

\* match[3] === 'check' ? '+' : match[3] === 'checkmate' ? '#' : ''
CheckOf(g3) ==
  IF g3 = Check THEN <<"+">> ELSE IF g3 = Checkmate THEN <<"#">> ELSE <<>>

\* piece + destination + check
AssembleSan(match) == PieceOf(match.g1) \o match.g2 \o CheckOf(match.g3)

\* the first of the three patterns that matches, NoMatch when none does
FirstMatch(text) ==
  IF Pattern1(text).matched THEN Pattern1(text)
  ELSE IF Pattern2(text).matched THEN Pattern2(text)
  ELSE Pattern3(text)

\* parseStandardMove scoring 0.9 whenever a context is supplied
parseStandardMove_AnyContext(text, ctx) ==
  LET match == FirstMatch(text)
      san == AssembleSan(match)
  IN  IF match.matched
      THEN IF ctx.present
           THEN MoveResult(san, 90, text)
           ELSE MoveResult(san, 70, text)
      ELSE MoveResult(Null, 0, text)

\* parseStandardMove with an unvalidated match scored 0 instead of 0.7
parseStandardMove_UnvalidatedZero(text, ctx) ==
  LET match == FirstMatch(text)
      san == AssembleSan(match)
  IN  IF match.matched
      THEN IF ctx.present /\ san \in Range(ctx.legalMoves)
           THEN MoveResult(san, 90, text)
           ELSE MoveResult(san, 0, text)
      ELSE MoveResult(Null, 0, text)

parseStandardMove(text, ctx) ==
  LET match == FirstMatch(text)
      san == AssembleSan(match)
  IN  IF match.matched
      THEN IF ctx.present /\ san \in Range(ctx.legalMoves)
           THEN MoveResult(san, 90, text)
           ELSE MoveResult(san, 70, text)
      ELSE MoveResult(Null, 0, text)

parseCastling(text, ctx) ==
  IF includes(text, Castle)
  THEN IF includes(text, Short) \/ includes(text, KingSide)
       THEN MoveResult(ShortCastle, 95, text)
       ELSE IF includes(text, Long) \/ includes(text, QueenSide)
       THEN MoveResult(LongCastle, 95, text)
       ELSE MoveResult(ShortCastle, 80, text)
  ELSE MoveResult(Null, 0, text)

\* cleaned.match(/([a-h][1-8])/): the leftmost square, Undefined when none
SquareMatch(text) ==
  LET at == {i \in 1..(Len(text) - 1) :
               text[i] \in Files /\ text[i + 1] \in Ranks}
  IN  IF at = {} THEN Undefined
      ELSE LET first == CHOOSE i \in at : \A j \in at : i <= j
           IN  SubSeq(text, first, first + 1)

\* legalMoves.filter(move => move.includes(destination) && !move.includes('O'))
CandidateMoves(legalMoves, destination) ==
  SelectSeq(legalMoves,
            LAMBDA move : includes(move, destination) /\ ~includes(move, <<"O">>))

\* the pieces the disambiguation loop walks, in its order
DisambiguationPieces == <<Knight, Queen, King, Rook, Bishop>>

\* move.startsWith(symbol) || (symbol === '' && !move.match(/^[NQKRB]/))
MatchesSymbol(move, symbol) ==
  \/ startsWith(move, symbol)
  \/ symbol = <<>> /\ ~(move # <<>> /\ move[1] \in {"N","Q","K","R","B"})

\* find returning the last candidate that matches instead of the first
FindFor_Last(text, candidateMoves, piece) ==
  LET symbol == Lookup(pieceSymbols, piece)
      found == SelectSeq(candidateMoves, LAMBDA move : MatchesSymbol(move, symbol))
  IN  IF includes(text, piece) /\ found # <<>> THEN found[Len(found)] ELSE Undefined

\* candidateMoves.find(...) for one piece of the loop, Undefined when the
\* piece is not spoken or no candidate starts with its symbol
FindFor(text, candidateMoves, piece) ==
  LET symbol == Lookup(pieceSymbols, piece)
      found == SelectSeq(candidateMoves, LAMBDA move : MatchesSymbol(move, symbol))
  IN  IF includes(text, piece) /\ found # <<>> THEN found[1] ELSE Undefined

\* the loop over the pieces: the first piece whose find succeeds decides
Disambiguate(text, candidateMoves) ==
  LET hits == {i \in 1..Len(DisambiguationPieces) :
                 FindFor(text, candidateMoves, DisambiguationPieces[i]) # Undefined}
  IN  IF hits = {} THEN Undefined
      ELSE FindFor(text, candidateMoves,
                   DisambiguationPieces[CHOOSE i \in hits : \A j \in hits : i <= j])

\* without a square in the text the first legal move is proposed
parseWithContext_GuessWithoutSquare(text, ctx) ==
  IF ~ctx.present THEN MoveResult(Null, 0, text)
  ELSE LET destination == SquareMatch(text)
           candidateMoves == CandidateMoves(ctx.legalMoves, destination)
       IN  IF destination = Undefined
           THEN IF ctx.legalMoves # <<>>
                  THEN MoveResult(ctx.legalMoves[1], 80, text)
                  ELSE MoveResult(Null, 0, text)
           ELSE IF Len(candidateMoves) = 1
           THEN MoveResult(candidateMoves[1], 80, text)
           ELSE IF Len(candidateMoves) > 1
                   /\ Disambiguate(text, candidateMoves) # Undefined
           THEN MoveResult(Disambiguate(text, candidateMoves), 85, text)
           ELSE MoveResult(Null, 0, text)

\* a unique candidate is answered with the spoken square, not with the move
parseWithContext_ReturnsSquare(text, ctx) ==
  IF ~ctx.present THEN MoveResult(Null, 0, text)
  ELSE LET destination == SquareMatch(text)
           candidateMoves == CandidateMoves(ctx.legalMoves, destination)
       IN  IF destination = Undefined THEN MoveResult(Null, 0, text)
           ELSE IF Len(candidateMoves) = 1
           THEN MoveResult(destination, 80, text)
           ELSE IF Len(candidateMoves) > 1
                   /\ Disambiguate(text, candidateMoves) # Undefined
           THEN MoveResult(Disambiguate(text, candidateMoves), 85, text)
           ELSE MoveResult(Null, 0, text)

\* parseWithContext(cleaned, context)
parseWithContext(text, ctx) ==
  IF ~ctx.present THEN MoveResult(Null, 0, text)
  ELSE LET destination == SquareMatch(text)
           candidateMoves == CandidateMoves(ctx.legalMoves, destination)
       IN  IF destination = Undefined THEN MoveResult(Null, 0, text)
           ELSE IF Len(candidateMoves) = 1
           THEN MoveResult(candidateMoves[1], 80, text)
           ELSE IF Len(candidateMoves) > 1
                   /\ Disambiguate(text, candidateMoves) # Undefined
           THEN MoveResult(Disambiguate(text, candidateMoves), 85, text)
           ELSE MoveResult(Null, 0, text)

(***************************************************************************)
(* parseMove                                                               *)
(***************************************************************************)
\* the strategies array with parseWithContext moved to the front
Strategy_ContextFirst(i, text, ctx) ==
  CASE i = 1 -> parseWithContext(text, ctx)
    [] i = 2 -> parseStandardMove(text, ctx)
    [] i = 3 -> parseCastling(text, ctx)

\* the result of the strategy at position i of the strategies array
Strategy(i, text, ctx) ==
  CASE i = 1 -> parseStandardMove(text, ctx)
    [] i = 2 -> parseCastling(text, ctx)
    [] i = 3 -> parseWithContext(text, ctx)

\* parseMove returning the last strategy's result when every strategy failed
parseMove_ReturnsLastResult(text, ctx) ==
  LET cleanedText == cleanTranscript(text)
      hits == {i \in 1..3 : ~Falsy(Strategy(i, cleanedText, ctx).san)}
  IN  IF hits # {}
      THEN Strategy(CHOOSE i \in hits : \A j \in hits : i <= j, cleanedText, ctx)
      ELSE Strategy(3, cleanedText, ctx)

\* the loop over the strategies: the first truthy san returns
parseMove(text, ctx) ==
  LET cleanedText == cleanTranscript(text)
      hits == {i \in 1..3 : ~Falsy(Strategy(i, cleanedText, ctx).san)}
  IN  IF hits # {}
      THEN Strategy(CHOOSE i \in hits : \A j \in hits : i <= j, cleanedText, ctx)
      ELSE [san |-> Null, confidence |-> 0, originalText |-> text,
            error |-> CouldNotParse]

(***************************************************************************)
(* The inputs of the calls.                                                *)
(***************************************************************************)
\* the words a transcript is built from freely; the empty word stands for a
\* doubled, leading or trailing blank
Vocabulary ==
  {<<"k","n","i","g","h","t">>,
   <<"b","i","s","h","o","p">>,
   <<"p","a","w","n">>,
   <<"t","o">>,
   <<"t","a","k","e","s">>,
   <<"f","3">>,
   <<"d","5">>,
   <<"f">>,
   <<"t","h","r","e","e">>,
   <<"c","a","s","t","l","e","s">>,
   <<"s","h","o","r","t">>,
   <<>>}

\* the utterances of the tests of MoveParser and of the examples of the
\* specification, each as its characters
ExampleTranscripts ==
  {<<"m","o","v","e"," ","t","h","e"," ","k","n","i","g","h","t"," ","t","o"," ","f","3">>,
   <<"p","a","w","n"," ","g","o","e","s"," ","t","o"," ","e","4">>,
   <<"n","i","g","h","t"," ","t","o"," ","f"," ","t","h","r","e","e">>,
   <<"w","o","n"," ","t","w","o"," ","t","h","r","e","e">>,
   <<"f","o","r"," ","a","t","e">>,
   <<"K","n","i","g","h","t"," ","t","o"," ","F","3","!">>,
   <<"Q","u","e","e","n",","," ","t","a","k","e","s"," ","e","5","?">>,
   <<"k","n","i","g","h","t"," ","t","o"," ","f","3">>,
   <<"e","4">>,
   <<"p","a","w","n"," ","t","a","k","e","s"," ","d","5">>,
   <<"c","a","s","t","l","e"," ","s","h","o","r","t">>,
   <<"c","a","s","t","l","e"," ","k","i","n","g"," ","s","i","d","e">>,
   <<"c","a","s","t","l","e"," ","l","o","n","g">>,
   <<"c","a","s","t","l","e"," ","q","u","e","e","n"," ","s","i","d","e">>,
   <<"c","a","s","t","l","e","s"," ","k","i","n","g","s","i","d","e">>,
   <<"c","a","s","t","l","e","s"," ","q","u","e","e","n"," ","s","i","d","e">>,
   <<"c","a","s","t","l","e","s"," ","l","o","n","g">>,
   <<"c","a","s","t","l","e">>,
   <<"q","u","e","e","n"," ","t","o"," ","h","5"," ","c","h","e","c","k">>,
   <<"g","i","b","b","e","r","i","s","h"," ","n","o","n","s","e","n","s","e">>,
   <<"f","3">>,
   <<"k","n","i","g","h","t"," ","f","3">>,
   <<>>,
   <<"p","l","e","a","s","e"," ","m","o","v","e"," ","t","h","e"," ","k","n","i","g","h","t"," ","p","i","e","c","e"," ","t","o"," ","t","h","e"," ","f","3"," ","s","q","u","a","r","e"," ","o","n"," ","t","h","e"," ","b","o","a","r","d">>,
   <<" "," ","K","N","I","G","H","T"," "," "," "," ","T","O"," "," "," "," ","F","3"," "," ">>,
   <<"p","a","w","n"," ","t","o"," ","e","4">>,
   <<"r","o","o","k"," ","t","o"," ","e","4">>,
   <<"q","x","e","5"," ","c","h","e","c","k","m","a","t","e">>,
   <<"e","d","5">>,
   <<"b","i","s","h","o","p"," ","f","3">>,
   <<"b","e","e">>,
   <<"t","h","e">>,
   <<"n","f","3">>,
   <<"N","f","3","!">>,
   <<"b","e","e"," ","4">>,
   <<"b","i","s","h","o","p","s"," ","f","3">>,
   <<"r","o","o","k"," ","d","1">>,
   <<"r","o","o","k"," ","t","o"," ","d","1">>,
   <<"k","n","i","g","h","t"," ","a","n","d"," ","b","i","s","h","o","p"," ","f","3">>,
   <<"t","a","k","i","n","g"," ","f","3">>}

\* the sequences of at most n elements of S
SeqsUpTo(S, n) == UNION {[1..k -> S] : k \in 0..n}

\* the transcripts of the model
Transcripts ==
  ExampleTranscripts \cup {join(words) : words \in SeqsUpTo(Vocabulary, MaxWords)}

\* the moves a legal-move list is built from freely
MovePool ==
  {<<"N","f","3">>, <<"B","f","3">>, <<"e","x","d","5">>, <<"N","x","d","5">>}

\* the legal-move lists of the tests of MoveParser
TestLegalMoves ==
  {<<<<"e","4">>,
      <<"e","3">>,
      <<"N","f","3">>,
      <<"N","c","3">>,
      <<"d","4">>,
      <<"d","3">>,
      <<"N","h","3">>,
      <<"N","a","3">>,
      <<"f","4">>,
      <<"f","3">>,
      <<"g","4">>,
      <<"g","3">>,
      <<"h","4">>,
      <<"h","3">>,
      <<"a","4">>,
      <<"a","3">>,
      <<"b","4">>,
      <<"b","3">>,
      <<"c","4">>,
      <<"c","3">>>>,
   <<<<"e","x","d","5">>,
      <<"N","x","d","5">>,
      <<"Q","x","d","5">>>>,
   <<<<"O","-","O">>,
      <<"O","-","O","-","O">>,
      <<"e","4">>,
      <<"e","3">>>>,
   <<<<"Q","h","5","+">>,
      <<"Q","h","4","+">>,
      <<"B","b","5","+">>>>,
   <<<<"N","f","3">>,
      <<"N","h","3">>,
      <<"N","c","3">>,
      <<"N","a","3">>>>,
   <<<<"N","f","3">>,
      <<"e","4">>,
      <<"d","4">>>>,
   <<<<"N","f","3">>,
      <<"B","f","3">>,
      <<"e","4">>>>,
   <<<<"R","a","d","1">>, <<"R","f","d","1">>>>,
   <<<<"R","f","d","1">>, <<"R","a","d","1">>, <<"B","d","1">>>>,
   <<<<"N","f","3">>, <<"K","f","3">>>>}

\* legalMoves holds no move twice
Unique(moves) == \A i, j \in 1..Len(moves) : moves[i] = moves[j] => i = j

LegalMoveLists ==
  TestLegalMoves \cup {moves \in SeqsUpTo(MovePool, MaxMoves) : Unique(moves)}

\* the contexts of the model, the absent one included
Contexts == {NoContext} \cup {Context(moves) : moves \in LegalMoveLists}

(***************************************************************************)
(* The state machine.  A MoveParser holds the two tables and nothing else, *)
(* and every call on it is a function of its arguments.  A behaviour is    *)
(* one use of a freshly constructed parser: the arguments are drawn when   *)
(* it starts, then a call is made on them.  op names the latest call,      *)
(* cleaned the text it normalized, result what parseMove returned.         *)
(***************************************************************************)
NoResult == MoveResult(Null, 0, <<>>)

\* a TTSConfirmation after construction: enabled, nothing said yet
NewTTSConfirmation ==
  /\ enabled = TRUE
  /\ settings = <<>>
  /\ synthCalls = <<>>

\* currentGameState = null
NoGameState == [present |-> FALSE, hasLegalMoves |-> FALSE, legalMoves |-> <<>>]

\* a VoiceBridge after construction, before initialize()
NoStop == [by |-> "none", timer |-> 0, capture |-> 0]

NoHistory == [initialized |-> FALSE, voice |-> "unset"]

\* a VoiceUI after construction, before create()
NewVoiceUI ==
  /\ uiCreated = FALSE
  /\ uiState = "idle"
  /\ errorTimer = FALSE

\* a VoiceCapture after construction
NewVoiceCapture ==
  /\ hasStream = FALSE
  /\ recording = 0
  /\ captures = 0
  /\ stopped = 0
  /\ timers = <<>>
  /\ lastStop = NoStop

NewVoiceBridge ==
  /\ currentGameState = NoGameState
  /\ isVoiceEnabled = FALSE
  /\ pending = 0
  /\ emitted = <<>>
  /\ isInitialized = FALSE
  /\ awaitingPermission = FALSE
  /\ voiceHistory = NoHistory
  /\ NewVoiceUI
  /\ NewVoiceCapture

\* no board conversion has been asked for
NoBoard ==
  /\ pieceMap = <<>>
  /\ fen = <<>>
  /\ convertedMap = <<>>

NoEmit == [event |-> "", data |-> ""]

\* a GameBus after construction
NewGameBus ==
  /\ listeners = <<>>
  /\ busCalls = <<>>
  /\ busEvent = NoEmit
  /\ invoked = <<>>

Init ==
  /\ op = "new"
  /\ transcript \in Transcripts
  /\ context \in Contexts
  /\ cleaned = <<>>
  /\ result = NoResult
  /\ sanToConfirm = <<>>
  /\ NewTTSConfirmation
  /\ NewVoiceBridge
  /\ NoBoard
  /\ NewGameBus

\* parser.cleanTranscript(transcript); the call takes no context
CleanTranscript ==
  /\ op = "new"
  /\ context = NoContext
  /\ op' = "cleanTranscript"
  /\ cleaned' = cleanTranscript(transcript)
  /\ UNCHANGED <<transcript, context, result, ttsVars, bridgeVars, boardVars, busVars>>

\* parser.cleanTranscript(cleaned): the normalized text is normalized again
Renormalize ==
  /\ op = "cleanTranscript"
  /\ op' = "renormalize"
  /\ transcript' = cleaned
  /\ cleaned' = cleanTranscript(cleaned)
  /\ UNCHANGED <<context, result, ttsVars, bridgeVars, boardVars, busVars>>

\* parser.parseMove(transcript, context)
ParseMove ==
  /\ op = "new"
  /\ op' = "parseMove"
  /\ cleaned' = cleanTranscript(transcript)
  /\ result' = parseMove(transcript, context)
  /\ UNCHANGED <<transcript, context, ttsVars, bridgeVars, boardVars, busVars>>

Next == CleanTranscript \/ Renormalize \/ ParseMove

Spec == Init /\ [][Next]_vars

(***************************************************************************)
(* Vocabulary of the claims.                                               *)
(***************************************************************************)
\* the blank-separated tokens of a text
Tokens(text) == SelectSeq(split(text), LAMBDA word : word # <<>>)
\* the words of a transcript as spoken: lower case, punctuation dropped
SpokenWords(text) == Tokens(StripPunctuation(text))
StopWords ==
  {<<"m","o","v","e">>,
   <<"m","o","v","e","s">>,
   <<"g","o">>,
   <<"g","o","e","s">>,
   <<"t","h","e">>,
   <<"a","n">>,
   <<"p","i","e","c","e">>,
   <<"p","i","e","c","e","s">>}

\* the squares a text names
Squares(text) ==
  {SubSeq(text, i, i + 1) : i \in {j \in 1..(Len(text) - 1) :
                                     text[j] \in Files /\ text[j + 1] \in Ranks}}
\* the destination square of a SAN move: the last square it names
Destination(move) ==
  LET at == {i \in 1..(Len(move) - 1) : move[i] \in Files /\ move[i + 1] \in Ranks}
  IN  IF at = {} THEN Undefined
      ELSE LET last == CHOOSE i \in at : \A j \in at : j <= i
           IN  SubSeq(move, last, last + 1)
\* the legal moves of the context whose destination is the square
MovesTo(square) ==
  {move \in Range(context.legalMoves) : Destination(move) = square}
PieceLetters == {"K","Q","R","B","N"}
\* the move has no leading piece letter
IsPawnMove(move) == move # <<>> /\ move[1] \notin PieceLetters
\* the latest call was parseMove: cleaned and result are its
Parsed == op = "parseMove"

\* C1: normalization is idempotent: normalizing the output of
\* cleanTranscript again returns it unchanged.
C1_Idempotent == op = "renormalize" => cleaned = transcript

\* C2: the output of cleanTranscript holds none of the stop-words, and
\* 'move the knight to f3' normalizes to 'knight 2 f3'.
C2_StopWordsDropped ==
  op # "new" =>
    /\ \A word \in Range(Tokens(cleaned)) : word \notin StopWords
    /\ transcript = <<"m","o","v","e"," ","t","h","e"," ","k","n","i","g","h","t"," ","t","o"," ","f","3">> => cleaned = <<"k","n","i","g","h","t"," ","2"," ","f","3">>

\* C3: when exactly one legal move has the spoken square as its
\* destination, parseMove returns that move with confidence >= 0.80.
C3_UniqueDestinationResolved ==
  Parsed /\ context.present =>
    \A square \in Squares(cleaned) :
      Squares(cleaned) = {square} /\ Cardinality(MovesTo(square)) = 1
        => /\ result.san \in MovesTo(square)
           /\ result.confidence >= 80

\* the transcript says the word, or the two words one after the other
Says(word) == word \in Range(SpokenWords(transcript))
SaysPair(first, second) ==
  LET spoken == SpokenWords(transcript)
  IN  \E i \in 1..(Len(spoken) - 1) : spoken[i] = first /\ spoken[i + 1] = second
SaysShortSide == Says(Short) \/ Says(<<"k","i","n","g","s","i","d","e">>) \/ SaysPair(King, <<"s","i","d","e">>)
SaysLongSide == Says(Long) \/ Says(<<"q","u","e","e","n","s","i","d","e">>) \/ SaysPair(Queen, <<"s","i","d","e">>)

\* C4: a transcript with the word 'castle' and a short-side word parses to
\* O-O, one with 'castle' and a long-side word to O-O-O, both at 0.95.
C4_ExplicitSideCastling ==
  Parsed /\ Says(Castle) =>
    /\ SaysShortSide /\ ~SaysLongSide
         => result.san = ShortCastle /\ result.confidence = 95
    /\ SaysLongSide /\ ~SaysShortSide
         => result.san = LongCastle /\ result.confidence = 95

\* C5: when the utterance names 'pawn' and several legal moves, one of a
\* pawn among them, target the spoken square, parseMove returns a move to
\* that square that has no leading piece letter.
C5_PawnDisambiguation ==
  Parsed /\ context.present /\ Pawn \in Range(Tokens(cleaned)) =>
    \A square \in Squares(cleaned) :
      /\ Squares(cleaned) = {square}
      /\ Cardinality(MovesTo(square)) > 1
      /\ \E move \in MovesTo(square) : IsPawnMove(move)
      => result.san \in {move \in MovesTo(square) : IsPawnMove(move)}

\* C6: a destination spoken as a file word then a rank word, after a piece
\* name and 'to', resolves to that square: the legal move of that piece to
\* it is returned with confidence above 0.5.
C6_SpelledOutSquare ==
  Parsed /\ context.present =>
    \A piece \in Range(PieceNames), file \in Files, rank \in Ranks :
      LET move == Lookup(pieceSymbols, piece) \o <<file, rank>>
      IN  /\ Tokens(cleaned) = <<piece, <<"2">>, <<file>>, <<rank>>>>
          /\ move \in Range(context.legalMoves)
          => result.san = move /\ result.confidence > 50

\* C7: a result of parseMove has a null san exactly when its confidence is
\* 0, and its confidence is one of 0, 0.70, 0.80, 0.85, 0.90, 0.95.
C7_ConfidenceTable ==
  Parsed =>
    /\ result.san = Null <=> result.confidence = 0
    /\ result.confidence \in {0, 70, 80, 85, 90, 95}
C7_Witness ==
  /\ Parsed
  /\ result.san # Null
  /\ result.confidence = 85

\* no strategy yields a move for the normalized text
NoStrategyYields ==
  /\ parseStandardMove(cleaned, context).san = Null
  /\ parseCastling(cleaned, context).san = Null
  /\ parseWithContext(cleaned, context).san = Null

\* C8: when no strategy yields a move the result is exactly a null san,
\* confidence 0 and the error 'Could not parse chess move'; a result with a
\* san carries no error.
C8_FailureResult ==
  Parsed =>
    /\ NoStrategyYields =>
         /\ result.san = Null
         /\ result.confidence = 0
         /\ result.error = CouldNotParse
    /\ result.san # Null => result.error = Undefined
C8_Witness ==
  /\ Parsed
  /\ transcript = <<"g","i","b","b","e","r","i","s","h"," ","n","o","n","s","e","n","s","e">>
  /\ context.present
  /\ result.error = CouldNotParse

\* the result of trying castling, then the standard patterns, then the
\* context, and returning the first whose san is not null
InSpecOrder(text, ctx) ==
  LET normalized == cleanTranscript(text)
  IN  IF parseCastling(normalized, ctx).san # Null
      THEN parseCastling(normalized, ctx)
      ELSE IF parseStandardMove(normalized, ctx).san # Null
      THEN parseStandardMove(normalized, ctx)
      ELSE IF parseWithContext(normalized, ctx).san # Null
      THEN parseWithContext(normalized, ctx)
      ELSE [san |-> Null, confidence |-> 0, originalText |-> text,
            error |-> CouldNotParse]

\* C9: parseMove returns what trying the strategies in the order castling,
\* standard pattern, context and taking the first non-null san returns.
C9_StrategyPriority == Parsed => result = InSpecOrder(transcript, context)
C9_Witness ==
  /\ Parsed
  /\ context.present
  /\ parseCastling(cleaned, context).san # Null
  /\ result = parseCastling(cleaned, context)

\* C10: a standard-pattern match assembles piece letter, destination and
\* check marker, the piece letter being empty for a pawn: the SAN starts
\* with one of K, Q, R, B, N or with the file of the destination.
C10_SanAssembly ==
  Parsed /\ FirstMatch(cleaned).matched =>
    LET match == FirstMatch(cleaned)
    IN  /\ result.san[1] \in PieceLetters \/ result.san[1] = match.g2[1]
        /\ match.g1 = Pawn => result.san = match.g2 \o CheckOf(match.g3)

SpokenTargets ==
  {move \in MovesTo(SquareMatch(cleaned)) : ~includes(move, <<"O">>)}
\* the piece names the disambiguation knows that are tokens of the text
NamedPieces ==
  {piece \in Range(DisambiguationPieces) : piece \in Range(Tokens(cleaned))}
\* the piece names the disambiguation knows that the text contains, be it
\* inside a longer word
ContainedPieces ==
  {piece \in Range(DisambiguationPieces) : includes(cleaned, piece)}
\* the context-driven strategy on the normalized text of the latest call
ByContext == parseWithContext(cleaned, context)

\* C12 as stated: with several legal moves to the spoken square and no
\* piece-name token in the normalized text, the context-driven strategy
\* returns a null san with confidence 0.
C12_NoGuessWithoutPieceToken ==
  Parsed /\ context.present /\ Cardinality(SpokenTargets) > 1
         /\ NamedPieces = {} /\ Pawn \notin Range(Tokens(cleaned))
    => ByContext.san = Null /\ ByContext.confidence = 0

\* s reversed
Reverse(s) == [i \in 1..Len(s) |-> s[Len(s) + 1 - i]]
\* the positions in legalMoves of the spoken targets that start with the
\* letter of the piece
TargetsOf(piece) ==
  {i \in 1..Len(context.legalMoves) :
     /\ context.legalMoves[i] \in SpokenTargets
     /\ startsWith(context.legalMoves[i], Lookup(pieceSymbols, piece))}

\* C13: when several legal moves target the spoken square and the letter of
\* the one piece named matches more than one of them, the context-driven
\* strategy returns the first of these in the order of legalMoves, with
\* confidence 0.85; on legalMoves reversed it returns the last of them, a
\* different move.
C13_FirstInListOrder ==
  Parsed /\ context.present =>
    \A piece \in ContainedPieces :
      ContainedPieces = {piece} /\ Cardinality(TargetsOf(piece)) > 1
        => LET first == CHOOSE i \in TargetsOf(piece) :
                          \A j \in TargetsOf(piece) : i <= j
               last == CHOOSE i \in TargetsOf(piece) :
                         \A j \in TargetsOf(piece) : j <= i
               reversed == Context(Reverse(context.legalMoves))
           IN  /\ ByContext.san = context.legalMoves[first]
               /\ ByContext.confidence = 85
               /\ parseWithContext(cleaned, reversed).san = context.legalMoves[last]
               /\ context.legalMoves[last] # ByContext.san
C13_Witness ==
  /\ Parsed
  /\ context.present
  /\ \E piece \in ContainedPieces :
       ContainedPieces = {piece} /\ Cardinality(TargetsOf(piece)) > 1
  /\ result = ByContext
  /\ result.confidence = 85

\* C21: the empty transcript normalizes to the empty text, and parseMove of
\* it returns san null with confidence 0 for every context, absent or not.
C21_EmptyInput ==
  transcript = <<>> =>
    /\ op = "cleanTranscript" => cleaned = <<>>
    /\ Parsed => cleaned = <<>> /\ result.san = Null /\ result.confidence = 0

C21_Witness ==
  /\ Parsed
  /\ transcript = <<>>
  /\ context.present
  /\ context.legalMoves # <<>>
  /\ result.san = Null
  /\ result.confidence = 0

CastlingLiterals == {ShortCastle, LongCastle}

\* C29: with a context, a san that is not a castling literal and comes with
\* confidence 0.80 or more is one of context.legalMoves; a san that is not
\* in legalMoves is a castling literal or a standard-pattern result at 0.70.
C29_ConfidentMeansLegal ==
  Parsed /\ context.present /\ result.san # Null =>
    /\ result.san \notin CastlingLiterals /\ result.confidence >= 80
         => result.san \in Range(context.legalMoves)
    /\ result.san \notin Range(context.legalMoves)
         => \/ result.san \in CastlingLiterals
            \/ /\ result.confidence = 70
               /\ FirstMatch(cleaned).matched
               /\ result.san = AssembleSan(FirstMatch(cleaned))

C29_Witness ==
  /\ Parsed
  /\ context.present
  /\ result.san \notin CastlingLiterals
  /\ result.confidence = 80
  /\ result.san \in Range(context.legalMoves)

(***************************************************************************)
(* TTSConfirmation (src/src/ts/voice/TTSConfirmation.ts).  The sentence    *)
(* for a move is built by one pass over the SAN string; every speaking     *)
(* operation returns at once when the enabled field is false and otherwise *)
(* cancels the running utterance and speaks a new one.                     *)
(***************************************************************************)
\* longest sequence of setEnabled calls
MaxSettings == 2

\* s[i] of JavaScript, i counted from 0: a one-character string, or
\* undefined outside the string
At(s, i) == IF i + 1 \in 1..Len(s) THEN <<s[i + 1]>> ELSE Undefined
\* `${v}` in a template literal
Template(v) == IF v = Undefined THEN <<"u","n","d","e","f","i","n","e","d">> ELSE v

\* the pieceNames of the piece branch
pieceNames ==
  {
    <<<<"N">>, <<"K","n","i","g","h","t">>>>,
    <<<<"Q">>, <<"Q","u","e","e","n">>>>,
    <<<<"K">>, <<"K","i","n","g">>>>,
    <<<<"R">>, <<"R","o","o","k">>>>,
    <<<<"B">>, <<"B","i","s","h","o","p">>>>
  }
\* the pieceNames of the promotion branch
promotionNames ==
  {
    <<<<"N">>, <<"k","n","i","g","h","t">>>>,
    <<<<"Q">>, <<"q","u","e","e","n">>>>,
    <<<<"R">>, <<"r","o","o","k">>>>,
    <<<<"B">>, <<"b","i","s","h","o","p">>>>
  }

\* the piece: the name of a leading piece letter, which is consumed, or Pawn
PieceStep(s) ==
  IF At(s, 0) # Undefined /\ includes(<<"N","Q","K","R","B">>, At(s, 0))
    THEN [result |-> Lookup(pieceNames, At(s, 0)), i |-> 1]
    ELSE [result |-> <<"P","a","w","n">>, i |-> 0]

\* the disambiguation: a file letter or a rank digit at i is consumed
DisambiguationStep(s, st) ==
  IF At(s, st.i) # Undefined /\ includes(<<"a","b","c","d","e","f","g","h">>, At(s, st.i))
    THEN [result |-> st.result \o <<" ","o","n"," ">> \o At(s, st.i) \o <<"-","f","i","l","e">>,
          i |-> st.i + 1]
  ELSE IF At(s, st.i) # Undefined /\ includes(<<"1","2","3","4","5","6","7","8">>, At(s, st.i))
    THEN [result |-> st.result \o <<" ","o","n"," ","r","a","n","k"," ">> \o At(s, st.i), i |-> st.i + 1]
  ELSE st

\* the capture: an 'x' at i is consumed
CaptureStep(s, st) ==
  IF At(s, st.i) = <<"x">>
    THEN [result |-> st.result \o <<" ","t","a","k","e","s">>, i |-> st.i + 1]
    ELSE [result |-> st.result \o <<" ","t","o">>, i |-> st.i]

\* the destination square: the next two characters, when both exist
DestinationStep(s, st) ==
  IF At(s, st.i) # Undefined /\ At(s, st.i + 1) # Undefined
    THEN [result |-> st.result \o <<" ">> \o At(s, st.i) \o <<"-">>
                       \o At(s, st.i + 1),
          i |-> st.i + 2]
    ELSE st

\* the promotion: '=' at i and the letter after it
PromotionStep(s, st) ==
  IF At(s, st.i) = <<"=">>
    THEN IF At(s, st.i + 1) # Undefined
           THEN [result |-> st.result \o <<","," ","p","r","o","m","o","t","e","s"," ","t","o"," ">>
                              \o Template(Lookup(promotionNames, At(s, st.i + 1))),
                 i |-> st.i + 2]
           ELSE [result |-> st.result, i |-> st.i + 1]
    ELSE st

\* check or checkmate: '+' or '#' at i
CheckStep(s, st) ==
  IF At(s, st.i) = <<"+">> THEN st.result \o <<","," ","c","h","e","c","k">>
  ELSE IF At(s, st.i) = <<"#">> THEN st.result \o <<","," ","c","h","e","c","k","m","a","t","e">>
  ELSE st.result

\* the sentence before its closing word
Phrase(s) ==
  CheckStep(s, PromotionStep(s, DestinationStep(s,
    CaptureStep(s, DisambiguationStep(s, PieceStep(s))))))

\* the closing word comes before the check suffix
formatMoveConfirmation_CheckLast(s) ==
  LET st == PromotionStep(s, DestinationStep(s,
              CaptureStep(s, DisambiguationStep(s, PieceStep(s)))))
  IN  CheckStep(s, [result |-> st.result \o <<" ","c","o","n","f","i","r","m","e","d">>, i |-> st.i])

\* formatMoveConfirmation(san)
formatMoveConfirmation(s) ==
  IF s = ShortCastle THEN <<"S","h","o","r","t"," ","c","a","s","t","l","e"," ","c","o","n","f","i","r","m","e","d">>
  ELSE IF s = LongCastle THEN <<"L","o","n","g"," ","c","a","s","t","l","e"," ","c","o","n","f","i","r","m","e","d">>
  ELSE Phrase(s) \o <<" ","c","o","n","f","i","r","m","e","d">>

\* the calls on synth
SynthCancel == [method |-> "cancel", text |-> <<>>]
SynthSpeak(text) == [method |-> "speak", text |-> text]
\* the text is spoken over the running utterance
speak_WithoutCancel(text) == <<SynthSpeak(text)>>
\* speak(text): the running utterance is cancelled, then text is spoken
speak(text) == <<SynthCancel, SynthSpeak(text)>>

\* the calls on synth of each operation, given the enabled field
confirmMove(isEnabled, s) ==
  IF ~isEnabled THEN <<>> ELSE speak(formatMoveConfirmation(s))
announceCheck(isEnabled) ==
  IF ~isEnabled THEN <<>> ELSE speak(<<"C","h","e","c","k","!">>)
announceCheckmate(isEnabled, winner) ==
  IF ~isEnabled THEN <<>>
  ELSE speak(<<"C","h","e","c","k","m","a","t","e","!"," ">> \o winner \o <<" ","w","i","n","s","!">>)
announceStalemate(isEnabled) ==
  IF ~isEnabled THEN <<>> ELSE speak(<<"S","t","a","l","e","m","a","t","e","!"," ","T","h","e"," ","g","a","m","e"," ","i","s"," ","a"," ","d","r","a","w",".">>)
\* the error is spoken whatever the enabled field
announceError_Unguarded(isEnabled, message) ==
  speak(<<"E","r","r","o","r",":"," ">> \o message)
announceError(isEnabled, message) ==
  IF ~isEnabled THEN <<>> ELSE speak(<<"E","r","r","o","r",":"," ">> \o message)
announceIllegalMove(isEnabled) ==
  IF ~isEnabled THEN <<>> ELSE speak(<<"T","h","a","t"," ","m","o","v","e"," ","i","s"," ","n","o","t"," ","l","e","g","a","l",".">>)
\* setEnabled(b): the new value of the enabled field
setEnabled(b) == b

(***************************************************************************)
(* The SAN strings given to confirmMove.                                   *)
(***************************************************************************)
CheckSuffixes == {<<>>, <<"+">>, <<"#">>}
PromotionSuffixes == {<<"=","Q">>, <<"=","N">>, <<"=","R">>, <<"=","B">>}

\* piece moves: letter, optional file or rank of origin, optional capture,
\* destination, optional check; a king move has no origin
PieceSans ==
  {p \o d \o c \o sq \o k :
     p \in {<<"N">>, <<"Q">>, <<"K">>, <<"R">>, <<"B">>},
     d \in {<<>>, <<"b">>, <<"1">>},
     c \in {<<>>, <<"x">>},
     sq \in {<<"f","3">>, <<"d","7">>, <<"h","5">>, <<"h","7">>, <<"e","5">>},
     k \in CheckSuffixes} \ 
  {<<"K">> \o d \o c \o sq \o k :
     d \in {<<"b">>, <<"1">>},
     c \in {<<>>, <<"x">>},
     sq \in {<<"f","3">>, <<"d","7">>, <<"h","5">>, <<"h","7">>, <<"e","5">>},
     k \in CheckSuffixes}

\* pawn moves: optional file of origin with capture, destination, a
\* promotion exactly on the last rank, optional check
PawnSans ==
  {f \o sq \o k : f \in {<<>>, <<"e","x">>}, sq \in {<<"d","5">>, <<"d","3">>}, k \in CheckSuffixes}
  \cup {sq \o k : sq \in {<<"e","4">>}, k \in CheckSuffixes}
  \cup {f \o sq \o pr \o k :
          f \in {<<>>, <<"e","x">>}, sq \in {<<"d","8">>}, pr \in PromotionSuffixes,
          k \in CheckSuffixes}
  \cup {sq \o pr \o k :
          sq \in {<<"e","8">>}, pr \in PromotionSuffixes, k \in CheckSuffixes}

CastlingSans == {c \o k : c \in {ShortCastle, LongCastle}, k \in CheckSuffixes}

GrammaticalSans == PieceSans \cup PawnSans \cup CastlingSans

\* strings that are not SAN
MalformedSans ==
  {<<>>, <<"x">>, <<"=">>, <<"+">>, <<"N">>, <<"e">>, <<"e","8","=">>, <<"e","8","=","K">>, <<"N","=","Q">>, <<"Z","z","9">>, <<"0","-","0">>, <<"n","f","3">>,
   <<" ","e","4">>, <<"e","4"," ">>, <<"N","f","3","!">>, <<"e","8","Q">>,
   <<"e","x","d","8","=","K">>, <<"e","x","d","8","=">>}

SanInputs == GrammaticalSans \cup MalformedSans

Winners == {<<"w","h","i","t","e">>, <<"b","l","a","c","k">>}
\* the messages given to announceError in the bridge and in the tests
ErrorMessages == {<<"C","o","u","l","d"," ","n","o","t"," ","u","n","d","e","r","s","t","a","n","d"," ","m","o","v","e">>, <<"I","n","v","a","l","i","d"," ","m","o","v","e">>}

(***************************************************************************)
(* The state machine of a TTSConfirmation: the SAN is drawn when the       *)
(* behaviour starts, then the operations are called in any order.          *)
(***************************************************************************)
InitTTS ==
  /\ op = "new"
  /\ sanToConfirm \in SanInputs
  /\ NewTTSConfirmation
  /\ transcript = <<>>
  /\ context = NoContext
  /\ cleaned = <<>>
  /\ result = NoResult
  /\ NewVoiceBridge
  /\ NoBoard
  /\ NewGameBus

ConfirmMove ==
  /\ op' = "confirmMove"
  /\ synthCalls' = confirmMove(enabled, sanToConfirm)
  /\ UNCHANGED <<sanToConfirm, enabled, settings, parserVars, bridgeVars, boardVars, busVars>>

AnnounceCheck ==
  /\ op' = "announceCheck"
  /\ synthCalls' = announceCheck(enabled)
  /\ UNCHANGED <<sanToConfirm, enabled, settings, parserVars, bridgeVars, boardVars, busVars>>

AnnounceCheckmate ==
  \E winner \in Winners :
    /\ op' = "announceCheckmate"
    /\ synthCalls' = announceCheckmate(enabled, winner)
    /\ UNCHANGED <<sanToConfirm, enabled, settings, parserVars, bridgeVars, boardVars, busVars>>

AnnounceStalemate ==
  /\ op' = "announceStalemate"
  /\ synthCalls' = announceStalemate(enabled)
  /\ UNCHANGED <<sanToConfirm, enabled, settings, parserVars, bridgeVars, boardVars, busVars>>

AnnounceError ==
  \E message \in ErrorMessages :
    /\ op' = "announceError"
    /\ synthCalls' = announceError(enabled, message)
    /\ UNCHANGED <<sanToConfirm, enabled, settings, parserVars, bridgeVars, boardVars, busVars>>

AnnounceIllegalMove ==
  /\ op' = "announceIllegalMove"
  /\ synthCalls' = announceIllegalMove(enabled)
  /\ UNCHANGED <<sanToConfirm, enabled, settings, parserVars, bridgeVars, boardVars, busVars>>

SetEnabled ==
  \E b \in BOOLEAN :
    /\ Len(settings) < MaxSettings
    /\ op' = "setEnabled"
    /\ enabled' = setEnabled(b)
    /\ settings' = Append(settings, b)
    /\ synthCalls' = <<>>
    /\ UNCHANGED <<sanToConfirm, parserVars, bridgeVars, boardVars, busVars>>

NextTTS ==
  \/ ConfirmMove
  \/ AnnounceCheck
  \/ AnnounceCheckmate
  \/ AnnounceStalemate
  \/ AnnounceError
  \/ AnnounceIllegalMove
  \/ SetEnabled

SpecTTS == InitTTS /\ [][NextTTS]_vars

(***************************************************************************)
(* Vocabulary of the claims on TTSConfirmation.                            *)
(***************************************************************************)
\* s.endsWith(p)
endsWith(s, p) == Len(s) >= Len(p) /\ SubSeq(s, Len(s) - Len(p) + 1, Len(s)) = p
\* the latest step called synth.speak
Spoke == \E n \in 1..Len(synthCalls) : synthCalls[n].method = "speak"
\* the text of the utterance the latest step spoke
Spoken == synthCalls[Len(synthCalls)].text
\* confirmMove spoke its sentence
Confirmed == op = "confirmMove" /\ Spoke
\* the characters of the SAN strings and of the sentences
Characters ==
  Range(LowerLetters) \cup Range(UpperLetters) \cup Digits
    \cup {" ", "-", ",", "=", "+", "#", "!", ".", ":"}
IsString(v) == \A n \in 1..Len(v) : v[n] \in Characters
\* an optional piece letter directly followed by the destination square
IsPlainSan(s) ==
  \/ Len(s) = 2 /\ s[1] \in Files /\ s[2] \in Ranks
  \/ Len(s) = 3 /\ s[1] \in PieceLetters /\ s[2] \in Files /\ s[3] \in Ranks
PlainSentence(s) ==
  IF Len(s) = 3
    THEN Lookup(pieceNames, <<s[1]>>) \o <<" ","t","o"," ">> \o <<s[2], "-", s[3]>>
           \o <<" ","c","o","n","f","i","r","m","e","d">>
    ELSE <<"P","a","w","n"," ","t","o"," ">> \o <<s[1], "-", s[2]>> \o <<" ","c","o","n","f","i","r","m","e","d">>

\* C14: for a SAN made of an optional piece letter directly followed by the
\* destination square, the sentence is '<Piece> to <file>-<rank> confirmed',
\* with Pawn when there is no piece letter.
C14_PlainMoveSentence ==
  Confirmed /\ IsPlainSan(sanToConfirm) => Spoken = PlainSentence(sanToConfirm)

\* C15: for every grammatical SAN a trailing '+' is rendered as ', check'
\* and a trailing '#' as ', checkmate', immediately before ' confirmed'.
C15_CheckSuffix ==
  Confirmed /\ sanToConfirm \in GrammaticalSans =>
    /\ endsWith(sanToConfirm, <<"+">>) => endsWith(Spoken, <<","," ","c","h","e","c","k"," ","c","o","n","f","i","r","m","e","d">>)
    /\ endsWith(sanToConfirm, <<"#">>)
         => endsWith(Spoken, <<","," ","c","h","e","c","k","m","a","t","e"," ","c","o","n","f","i","r","m","e","d">>)

\* the positions of sanToConfirm where a promotion suffix '=X' starts
PromotionAt ==
  {n \in 3..(Len(sanToConfirm) - 1) :
     /\ sanToConfirm[n] = "="
     /\ HasKey(promotionNames, <<sanToConfirm[n + 1]>>)}

\* C16: for every grammatical promotion SAN the suffix '=X' is rendered as
\* ', promotes to <piece-name>' right after the destination square.
C16_PromotionSuffix ==
  Confirmed /\ sanToConfirm \in GrammaticalSans =>
    \A n \in PromotionAt :
      includes(Spoken,
               <<" ", sanToConfirm[n - 2], "-", sanToConfirm[n - 1]>>
                 \o <<","," ","p","r","o","m","o","t","e","s"," ","t","o"," ">>
                 \o Lookup(promotionNames, <<sanToConfirm[n + 1]>>))

\* C17: for every input, the empty string, malformed SAN and the castling
\* literals included, formatMoveConfirmation returns a string, and the
\* string ends with ' confirmed'.
C17_AlwaysConfirmed ==
  Confirmed => IsString(Spoken) /\ endsWith(Spoken, <<" ","c","o","n","f","i","r","m","e","d">>)

C17_Witness ==
  /\ Confirmed
  /\ sanToConfirm = <<>>
  /\ Spoken = <<"P","a","w","n"," ","t","o"," ","c","o","n","f","i","r","m","e","d">>

SpeakingOps ==
  {"confirmMove", "announceCheck", "announceCheckmate", "announceStalemate",
   "announceError", "announceIllegalMove"}
\* the latest setEnabled call passed false
Disabled == settings # <<>> /\ ~settings[Len(settings)]

\* C19: while the latest setEnabled call passed false no speaking operation
\* calls synth.speak; initially, and when the latest call passed true, each
\* of them does.
C19_DisabledIsSilent ==
  /\ enabled = ~Disabled
  /\ op \in SpeakingOps => IF Disabled THEN synthCalls = <<>> ELSE Spoke

C19_Witness ==
  /\ settings = <<FALSE, TRUE>>
  /\ op = "announceError"
  /\ Spoke

\* C24: every synth.speak of a speaking operation comes directly after a
\* synth.cancel of the same operation, so that in the calls of any sequence
\* of announcements each speak is immediately preceded by a cancel.
C24_CancelBeforeSpeak ==
  \A n \in 1..Len(synthCalls) :
    synthCalls[n].method = "speak"
      => n > 1 /\ synthCalls[n - 1].method = "cancel"

C24_Witness ==
  /\ op = "announceStalemate"
  /\ settings = <<FALSE, TRUE>>
  /\ Len(synthCalls) = 2
  /\ synthCalls[1].method = "cancel"
  /\ synthCalls[2].method = "speak"

(***************************************************************************)
(* VoiceBridge (src/src/ts/voice/VoiceBridge.ts): the recording of an      *)
(* utterance is turned into a transcript, the transcript is parsed against *)
(* the legal moves of the latest game state, and the move is emitted on    *)
(* the GameBus, whose listeners run before emit returns.                   *)
(***************************************************************************)
\* most recordings whose speech-to-text is awaited at once
MaxPending == 1

\* the sample transcripts simulateSpeechToText resolves to
testMoves ==
  <<<<"k","n","i","g","h","t"," ","t","o"," ","f","3">>, <<"p","a","w","n"," ","t","o"," ","e","4">>, <<"q","u","e","e","n"," ","t","a","k","e","s"," ","e","5">>, <<"k","i","n","g"," ","s","i","d","e"," ","c","a","s","t","l","e">>,
    <<"b","i","s","h","o","p"," ","t","o"," ","c","4">>>>

\* the data of a 'state' event: with the legal moves (Piece.emitCurrentState)
\* or without them (GameBus.emitState)
GameState(moves) == [present |-> TRUE, hasLegalMoves |-> TRUE, legalMoves |-> moves]
GameStateWithoutMoves ==
  [present |-> TRUE, hasLegalMoves |-> FALSE, legalMoves |-> <<>>]
\* legal-move lists that hold what the sample transcripts parse to
BridgeLegalMoves ==
  {<<<<"N","f","3">>, <<"e","4">>, <<"B","c","4">>>>, <<<<"Q","x","e","5">>, <<"O","-","O">>>>}
GameStates ==
  {GameStateWithoutMoves}
    \cup {GameState(moves) : moves \in BridgeLegalMoves}

\* getCurrentParseContext(): the legal moves of the current game state, or
\* none when there is no game state or it carries no legalMoves
getCurrentParseContext(gameState) ==
  IF ~gameState.present THEN Context(<<>>)
  ELSE IF gameState.hasLegalMoves THEN Context(gameState.legalMoves)
  ELSE Context(<<>>)

\* isValidMove(san): !!san
isValidMove(s, gameState) == ~Falsy(s)

\* an event on the GameBus; data is the san of a 'move', the error of a
\* 'voice:error', the text of a 'voice:transcript'
Event(type, data, source) == [type |-> type, data |-> data, source |-> source]
\* what processTranscript emits for a move
MoveEvent(s) == Event("move", s, "voice")
\* the moves made on the board
BoardMoves == {<<"e","4">>, <<"N","f","3">>}

\* the 'move' listener of the bridge: a move from voice is confirmed aloud
OnMove(event, isEnabled) ==
  IF event.source # "voice" THEN <<>> ELSE confirmMove(isEnabled, event.data)

\* a parsed move is emitted without 'voice:complete'
processTranscript_NoComplete(parsed, gameState, isEnabled) ==
  IF ~Falsy(parsed.san)
    THEN [emitted |-> <<MoveEvent(parsed.san)>>,
          synthCalls |-> OnMove(MoveEvent(parsed.san), isEnabled)]
    ELSE [emitted |-> <<Event("voice:error", OrElse(parsed.error, <<"P","a","r","s","e"," ","f","a","i","l","e","d">>), "")>>,
          synthCalls |-> announceError(isEnabled, <<"C","o","u","l","d"," ","n","o","t"," ","u","n","d","e","r","s","t","a","n","d"," ","m","o","v","e">>)]

\* processTranscript(transcript) once parseMove has returned parsed: the
\* events emitted and the calls made on synth
processTranscript(parsed, gameState, isEnabled) ==
  IF ~Falsy(parsed.san)
    THEN IF isValidMove(parsed.san, gameState)
           THEN [emitted |-> <<MoveEvent(parsed.san),
                               Event("voice:complete", <<>>, "")>>,
                 synthCalls |-> OnMove(MoveEvent(parsed.san), isEnabled)]
           ELSE [emitted |-> <<Event("voice:error", <<"I","l","l","e","g","a","l"," ","m","o","v","e">>, "")>>,
                 synthCalls |-> announceIllegalMove(isEnabled)]
    ELSE [emitted |-> <<Event("voice:error",
                              OrElse(parsed.error, <<"P","a","r","s","e"," ","f","a","i","l","e","d">>), "")>>,
          synthCalls |-> announceError(isEnabled, <<"C","o","u","l","d"," ","n","o","t"," ","u","n","d","e","r","s","t","a","n","d"," ","m","o","v","e">>)]

(***************************************************************************)
(* VoiceUI (src/src/ts/voice/TTSConfirmation.ts), whose listeners run      *)
(* inside the emit of the bridge, and VoiceCapture (VoiceConfig.ts).       *)
(***************************************************************************)
\* most captures started, and most recording timeouts scheduled at once
MaxCaptures == 2
\* most setVoiceEnabled calls that reach the TTS setting
MaxToggles == 1

\* the listeners create() registers: the state an event leaves the UI in
setupEventListeners(state, event) ==
  CASE event.type = "voice:start" -> "listening"
    [] event.type = "voice:processing" -> "processing"
    [] event.type = "voice:error" -> "error"
    [] event.type = "voice:complete" -> "idle"
    [] OTHER -> state

RECURSIVE VoiceUIAfter(_, _)
VoiceUIAfter(state, events) ==
  IF events = <<>> THEN state
  ELSE VoiceUIAfter(setupEventListeners(state, Head(events)), Tail(events))

\* the bridge emits the events; the listeners of a created VoiceUI set its
\* state, and showError schedules the auto-clear of the error
Listen(events) ==
  /\ emitted' = events
  /\ uiState' = IF uiCreated THEN VoiceUIAfter(uiState, events) ELSE uiState
  /\ errorTimer' =
       (errorTimer \/ (uiCreated /\ \E n \in 1..Len(events) : events[n].type = "voice:error"))

\* handleVoiceError(error): 'voice:error' is emitted and the UI shows it
handleVoiceError(message) == <<Event("voice:error", message, "")>>

\* the step calls neither the parser nor the speech synthesis
Quiet ==
  /\ transcript' = <<>>
  /\ context' = NoContext
  /\ cleaned' = <<>>
  /\ result' = NoResult
  /\ sanToConfirm' = <<>>
  /\ synthCalls' = <<>>

\* the start request is honoured whenever voice is enabled
CanStart_EnabledOnly == isVoiceEnabled

\* the guard of handleStartVoiceCapture
CanStart == isInitialized /\ isVoiceEnabled

\* handleStartVoiceCapture(): 'voice:start', startCapture() and, unless it
\* threw, the 10 s timeout; a timeout is named by the capture recording
\* when it was set
handleStartVoiceCapture ==
  IF ~CanStart
  THEN /\ emitted' = <<>>
       /\ UNCHANGED <<uiState, errorTimer, recording, captures, timers>>
  ELSE IF ~hasStream
  THEN /\ Listen(<<Event("voice:start", <<>>, "")>>
                   \o handleVoiceError(<<"M","i","c","r","o","p","h","o","n","e"," ","p","e","r","m","i","s","s","i","o","n"," ","n","o","t"," ","g","r","a","n","t","e","d">>))
       /\ UNCHANGED <<recording, captures, timers>>
  ELSE IF recording # 0
  THEN /\ Len(timers) < MaxCaptures
       /\ Listen(<<Event("voice:start", <<>>, "")>>)
       /\ timers' = Append(timers, recording)
       /\ UNCHANGED <<recording, captures>>
  ELSE \E started \in BOOLEAN :
         IF started
         THEN /\ captures < MaxCaptures
              /\ Len(timers) < MaxCaptures
              /\ Listen(<<Event("voice:start", <<>>, "")>>)
              /\ captures' = captures + 1
              /\ recording' = captures + 1
              /\ timers' = Append(timers, captures + 1)
         ELSE /\ Listen(<<Event("voice:start", <<>>, "")>>
                          \o handleVoiceError(<<"F","a","i","l","e","d"," ","t","o"," ","s","t","a","r","t"," ","v","o","i","c","e"," ","c","a","p","t","u","r","e">>)
                          \o handleVoiceError(<<"F","a","i","l","e","d"," ","t","o"," ","s","t","a","r","t"," ","v","o","i","c","e"," ","c","a","p","t","u","r","e">>))
              /\ UNCHANGED <<recording, captures, timers>>

\* handleStopVoiceCapture(): a recording capture is stopped; its recorder
\* will call onstop
handleStopVoiceCapture(by, timer) ==
  IF recording # 0
  THEN /\ recording' = 0
       /\ stopped' = stopped + 1
       /\ lastStop' = [by |-> by, timer |-> timer, capture |-> recording]
  ELSE /\ UNCHANGED <<recording, stopped>>
       /\ lastStop' = NoStop

(***************************************************************************)
(* The state machine of a VoiceBridge.                                     *)
(***************************************************************************)
InitBridge ==
  /\ op = "new"
  /\ transcript = <<>>
  /\ context = NoContext
  /\ cleaned = <<>>
  /\ result = NoResult
  /\ sanToConfirm = <<>>
  /\ NewTTSConfirmation
  /\ NewVoiceBridge
  /\ NoBoard
  /\ NewGameBus

\* initialize() up to the await of requestPermission: the UI is created;
\* without browser support the UI is disabled and the call returns
Initialize ==
  /\ ~awaitingPermission
  /\ op' = "initialize"
  /\ uiCreated' = TRUE
  /\ \E supported \in BOOLEAN :
       IF supported
       THEN awaitingPermission' = TRUE /\ uiState' = uiState
       ELSE awaitingPermission' = FALSE /\ uiState' = "disabled"
  /\ emitted' = <<>>
  /\ lastStop' = NoStop
  /\ Quiet
  /\ UNCHANGED <<enabled, settings, currentGameState, isVoiceEnabled, pending,
                 isInitialized, voiceHistory, errorTimer, captureVarsButStop,
                 boardVars, busVars>>

\* initialize() after the await: permission granted or denied
PermissionResult ==
  /\ awaitingPermission
  /\ op' = "permission"
  /\ awaitingPermission' = FALSE
  /\ \E granted \in BOOLEAN :
       IF granted
       THEN /\ hasStream' = TRUE
            /\ isInitialized' = TRUE
            /\ isVoiceEnabled' = TRUE
            /\ uiState' = "idle"
            /\ voiceHistory' = [initialized |-> TRUE, voice |-> "on"]
       ELSE /\ uiState' = "disabled"
            /\ UNCHANGED <<hasStream, isInitialized, isVoiceEnabled, voiceHistory>>
  /\ emitted' = <<>>
  /\ lastStop' = NoStop
  /\ Quiet
  /\ UNCHANGED <<enabled, settings, currentGameState, pending, uiCreated,
                 errorTimer, recording, captures, stopped, timers, boardVars, busVars>>

\* the 'state' listener
OnState ==
  \E gameState \in GameStates :
    /\ op' = "state"
    /\ currentGameState' = gameState
    /\ emitted' = <<>>
    /\ lastStop' = NoStop
    /\ Quiet
    /\ UNCHANGED <<enabled, settings, isVoiceEnabled, pending, isInitialized,
                   awaitingPermission, voiceHistory, uiVars, captureVarsButStop,
                   boardVars, busVars>>

\* the 'move' listener on a move made on the board: GameBus.emitMove gives
\* the event no source
OnBoardMove ==
  \E s \in BoardMoves :
    /\ op' = "move"
    /\ sanToConfirm' = s
    /\ synthCalls' = OnMove(Event("move", s, ""), enabled)
    /\ emitted' = <<>>
    /\ lastStop' = NoStop
    /\ transcript' = <<>>
    /\ context' = NoContext
    /\ cleaned' = <<>>
    /\ result' = NoResult
    /\ UNCHANGED <<enabled, settings, currentGameState, isVoiceEnabled, pending,
                   isInitialized, awaitingPermission, voiceHistory, uiVars,
                   captureVarsButStop, boardVars, busVars>>

\* the 'voice:start-request' listener
StartRequest ==
  /\ op' = "startRequest"
  /\ handleStartVoiceCapture
  /\ lastStop' = NoStop
  /\ Quiet
  /\ UNCHANGED <<enabled, settings, currentGameState, isVoiceEnabled, pending,
                 isInitialized, awaitingPermission, voiceHistory, uiCreated,
                 hasStream, stopped, boardVars, busVars>>

\* the 'voice:stop-request' listener
StopRequest ==
  /\ op' = "stopRequest"
  /\ handleStopVoiceCapture("request", 0)
  /\ emitted' = <<>>
  /\ Quiet
  /\ UNCHANGED <<enabled, settings, currentGameState, isVoiceEnabled, pending,
                 isInitialized, awaitingPermission, voiceHistory, uiVars,
                 hasStream, captures, timers, boardVars, busVars>>

\* handleMicButtonClick(): the button takes clicks once created and unless
\* the UI is DISABLED or PROCESSING; the requests run their listeners
MicButtonClick ==
  /\ uiCreated
  /\ uiState \in {"idle", "listening", "error"}
  /\ op' = "micButtonClick"
  /\ CASE uiState = "idle" ->
            /\ handleStartVoiceCapture
            /\ lastStop' = NoStop
            /\ UNCHANGED stopped
       [] uiState = "listening" ->
            /\ handleStopVoiceCapture("request", 0)
            /\ emitted' = <<>>
            /\ UNCHANGED <<uiState, errorTimer, captures, timers>>
       [] OTHER ->
            /\ uiState' = "idle"
            /\ emitted' = <<>>
            /\ lastStop' = NoStop
            /\ UNCHANGED <<errorTimer, recording, captures, stopped, timers>>
  /\ Quiet
  /\ UNCHANGED <<enabled, settings, currentGameState, isVoiceEnabled, pending,
                 isInitialized, awaitingPermission, voiceHistory, uiCreated,
                 hasStream, boardVars, busVars>>

\* the callback of the oldest setTimeout of handleStartVoiceCapture: after
\* 10 s, whatever is recording is stopped
CaptureTimeout ==
  /\ timers # <<>>
  /\ op' = "captureTimeout"
  /\ timers' = Tail(timers)
  /\ handleStopVoiceCapture("timeout", Head(timers))
  /\ emitted' = <<>>
  /\ Quiet
  /\ UNCHANGED <<enabled, settings, currentGameState, isVoiceEnabled, pending,
                 isInitialized, awaitingPermission, voiceHistory, uiVars,
                 hasStream, captures, boardVars, busVars>>

\* onstop of a stopped recorder: handleAudioData(audioBlob), up to the await
\* of simulateSpeechToText
HandleAudioData ==
  /\ stopped > 0
  /\ pending < MaxPending
  /\ op' = "handleAudioData"
  /\ stopped' = stopped - 1
  /\ pending' = pending + 1
  /\ Listen(<<Event("voice:processing", <<>>, "")>>)
  /\ lastStop' = NoStop
  /\ Quiet
  /\ UNCHANGED <<enabled, settings, currentGameState, isVoiceEnabled,
                 isInitialized, awaitingPermission, voiceHistory, uiCreated,
                 hasStream, recording, captures, timers, boardVars, busVars>>

\* handleAudioData after the await, for each game state, sample transcript
\* and TTS setting: the arguments and the result of parseMove and what
\* processTranscript does with the result
Processed ==
  [gameState \in {NoGameState} \cup GameStates |->
    [n \in DOMAIN testMoves |->
      [isEnabled \in BOOLEAN |->
        LET parsed == parseMove(testMoves[n], getCurrentParseContext(gameState))
        IN [context |-> getCurrentParseContext(gameState),
            cleaned |-> cleanTranscript(testMoves[n]),
            parsed |-> parsed,
            outcome |-> processTranscript(parsed, gameState, isEnabled)]]]]

\* handleAudioData after the await: the transcript is one of testMoves and
\* is processed
ProcessTranscript ==
  /\ pending > 0
  /\ \E n \in DOMAIN testMoves :
       \E done \in {Processed[currentGameState][n][enabled]} :
         /\ op' = "processTranscript"
         /\ pending' = pending - 1
         /\ transcript' = testMoves[n]
         /\ context' = done.context
         /\ cleaned' = done.cleaned
         /\ result' = done.parsed
         /\ Listen(<<Event("voice:transcript", testMoves[n], "")>> \o done.outcome.emitted)
         /\ synthCalls' = done.outcome.synthCalls
         /\ sanToConfirm' =
              IF done.outcome.emitted[1].type = "move" THEN done.parsed.san ELSE <<>>
         /\ lastStop' = NoStop
         /\ UNCHANGED <<enabled, settings, currentGameState, isVoiceEnabled,
                        isInitialized, awaitingPermission, voiceHistory,
                        uiCreated, captureVarsButStop, boardVars, busVars>>

\* setVoiceEnabled(b); before create() the UI throws once its state is set
\* and the TTS setting is not reached
SetVoiceEnabled ==
  \E b \in BOOLEAN :
    /\ Len(settings) < MaxToggles
    /\ op' = "setVoiceEnabled"
    /\ isVoiceEnabled' = b
    /\ voiceHistory' = [voiceHistory EXCEPT !.voice = IF b THEN "on" ELSE "off"]
    /\ uiState' = IF b THEN "idle" ELSE "disabled"
    /\ IF uiCreated
       THEN enabled' = setEnabled(b) /\ settings' = Append(settings, b)
       ELSE UNCHANGED <<enabled, settings>>
    /\ emitted' = <<>>
    /\ lastStop' = NoStop
    /\ Quiet
    /\ UNCHANGED <<currentGameState, pending, isInitialized, awaitingPermission,
                   uiCreated, errorTimer, captureVarsButStop, boardVars, busVars>>

\* the delayedCall of showError, 5 s after an error was shown
ErrorAutoClear ==
  /\ errorTimer
  /\ op' = "errorAutoClear"
  /\ errorTimer' = FALSE
  /\ uiState' = IF uiState = "error" THEN "idle" ELSE uiState
  /\ emitted' = <<>>
  /\ lastStop' = NoStop
  /\ Quiet
  /\ UNCHANGED <<enabled, settings, currentGameState, isVoiceEnabled, pending,
                 isInitialized, awaitingPermission, voiceHistory, uiCreated,
                 captureVarsButStop, boardVars, busVars>>

NextBridge ==
  \/ Initialize
  \/ PermissionResult
  \/ OnState
  \/ OnBoardMove
  \/ StartRequest
  \/ StopRequest
  \/ MicButtonClick
  \/ CaptureTimeout
  \/ HandleAudioData
  \/ ProcessTranscript
  \/ SetVoiceEnabled
  \/ ErrorAutoClear

SpecBridge == InitBridge /\ [][NextBridge]_vars

\* the bridge, its UI and its timers while the game sends no event
NextVoice ==
  \/ Initialize
  \/ PermissionResult
  \/ StartRequest
  \/ StopRequest
  \/ MicButtonClick
  \/ CaptureTimeout
  \/ HandleAudioData
  \/ ProcessTranscript
  \/ SetVoiceEnabled
  \/ ErrorAutoClear

\* the promise of simulateSpeechToText resolves 500 ms after the recording
\* was handed over, so an awaited transcript is eventually processed
SpecVoiceLive ==
  InitBridge /\ [][NextVoice]_vars /\ WF_vars(ProcessTranscript)

(***************************************************************************)
(* Claims on VoiceBridge.                                                  *)
(***************************************************************************)
\* the moves the rules authority holds legal in the current game state
LegalNow == Range(getCurrentParseContext(currentGameState).legalMoves)
Emitted(type) == \E n \in 1..Len(emitted) : emitted[n].type = type

\* C18: a 'move' event is emitted for a parsed san only when the san is one
\* of the current legal moves; a san that is not leads to announceIllegalMove
\* and 'voice:error' and to no 'move' event.
C18_LegalityGate ==
  op = "processTranscript" =>
    /\ \A n \in 1..Len(emitted) :
         emitted[n].type = "move" => emitted[n].data \in LegalNow
    /\ ~Falsy(result.san) /\ result.san \notin LegalNow
         => /\ ~Emitted("move")
            /\ Emitted("voice:error")
            /\ synthCalls = announceIllegalMove(enabled)

(***************************************************************************)
(* Claims on the VoiceBridge with its VoiceUI and VoiceCapture.            *)
(***************************************************************************)
\* C25: while TTS is enabled, every 'move' event, from the board or from
\* voice, is confirmed aloud with the san of the event
C25_EveryMoveConfirmed ==
  (op = "move" \/ (op = "processTranscript" /\ Emitted("move"))) /\ enabled
    => synthCalls = confirmMove(TRUE, sanToConfirm)

\* initialize() has succeeded and voice is enabled, by the outcomes of the
\* initialize() and setVoiceEnabled() calls so far
VoiceOn == voiceHistory.initialized /\ voiceHistory.voice = "on"
StartAsked == op \in {"startRequest", "micButtonClick"}

\* C30: 'voice:start' is emitted and a capture started only when
\* initialize() has succeeded and voice is enabled; a start request in any
\* other state starts no capture, emits nothing and leaves the UI state
C30_NoCaptureUnlessEnabled ==
  [][/\ (StartAsked' /\ Emitted("voice:start")') \/ captures' # captures => VoiceOn
     /\ op' = "startRequest" /\ ~VoiceOn
          => /\ emitted' = <<>>
             /\ UNCHANGED <<uiState, recording, captures, timers, stopped>>]_vars

\* a start request before initialize(), with voice switched on by
\* setVoiceEnabled(true), is ignored
C30_Witness ==
  /\ op = "startRequest"
  /\ ~voiceHistory.initialized
  /\ voiceHistory.voice = "on"
  /\ emitted = <<>>
  /\ captures = 0
  /\ uiState = "idle"

\* C28: a recording timeout stops only the capture it was set for
C28_TimeoutStopsOwnCapture ==
  op = "captureTimeout" /\ lastStop.capture # 0 => lastStop.capture = lastStop.timer

\* voice is disabled: setVoiceEnabled(false) was called and neither
\* setVoiceEnabled(true) nor a successful initialize() since
VoiceOff == voiceHistory.voice = "off"

\* C27: while voice is disabled the VoiceUI stays DISABLED
C27_DisabledStaysDisabled == VoiceOff => uiState = "disabled"

\* C26: every 'voice:processing' event is followed by a 'voice:complete' or
\* a 'voice:error' event, and the VoiceUI does not stay in PROCESSING
C26_ProcessingEnds ==
  /\ Emitted("voice:processing") ~> (Emitted("voice:complete") \/ Emitted("voice:error"))
  /\ (uiState = "processing") ~> (uiState # "processing")

\* a recording was processed into a move and the UI is back to IDLE
C26_Witness ==
  /\ op = "processTranscript"
  /\ result.san = <<"N","f","3">>
  /\ Emitted("voice:complete")
  /\ uiState = "idle"
  /\ pending = 0

(***************************************************************************)
(* BoardAdapter (src/unnamed/part_007): a piece map is an 8x8 array of     *)
(* two-letter piece codes, '  ' for an empty square; pieceMapToFen writes  *)
(* the piece placement field of a FEN string and fenToPieceMap reads it.   *)
(***************************************************************************)
\* the loops of both conversions run over 8 rows and 8 columns
BoardSize == 8

EmptyCell == <<" "," ">>

PIECE_MAP ==
  {<<<<"b","r">>, <<"r">>>>, <<<<"b","n">>, <<"n">>>>, <<<<"b","b">>, <<"b">>>>, <<<<"b","q">>, <<"q">>>>, <<<<"b","k">>, <<"k">>>>,
   <<<<"b","p">>, <<"p">>>>, <<<<"w","r">>, <<"R">>>>, <<<<"w","n">>, <<"N">>>>, <<<<"w","b">>, <<"B">>>>, <<<<"w","q">>, <<"Q">>>>,
   <<<<"w","k">>, <<"K">>>>, <<<<"w","p">>, <<"P">>>>, <<<<" "," ">>, <<"1">>>>}

REVERSE_PIECE_MAP ==
  {<<<<"r">>, <<"b","r">>>>, <<<<"n">>, <<"b","n">>>>, <<<<"b">>, <<"b","b">>>>, <<<<"q">>, <<"b","q">>>>, <<<<"k">>, <<"b","k">>>>,
   <<<<"p">>, <<"b","p">>>>, <<<<"R">>, <<"w","r">>>>, <<<<"N">>, <<"w","n">>>>, <<<<"B">>, <<"w","b">>>>, <<<<"Q">>, <<"w","q">>>>,
   <<<<"K">>, <<"w","k">>>>, <<<<"P">>, <<"w","p">>>>}

DecimalDigits == <<"0","1","2","3","4","5","6","7","8","9">>

\* emptyCount.toString(), for the counts a row of 8 squares can reach
NumberToString(n) == <<DecimalDigits[n + 1]>>

\* parseInt(char) of a digit
parseInt(char) == (CHOOSE n \in 1..10 : DecimalDigits[n] = char) - 1

\* the end of a row drops the empty squares counted since the last piece
RowEnd_DropsTrailingEmpties(rowStr, emptyCount) == rowStr

\* after the last column: the empty squares still counted are written
RowEnd(rowStr, emptyCount) ==
  IF emptyCount > 0 THEN rowStr \o NumberToString(emptyCount) ELSE rowStr

\* the loop over the columns of one row, from column col (1-based)
RECURSIVE RowToFen(_, _, _, _)
RowToFen(row, col, rowStr, emptyCount) ==
  IF col > BoardSize THEN RowEnd(rowStr, emptyCount)
  ELSE LET piece == row[col]
       IN IF piece = EmptyCell
          THEN RowToFen(row, col + 1, rowStr, emptyCount + 1)
          ELSE RowToFen(row, col + 1,
                        (IF emptyCount > 0 THEN rowStr \o NumberToString(emptyCount)
                         ELSE rowStr)
                          \o OrElse(Lookup(PIECE_MAP, piece), <<"1">>),
                        0)

\* the loop over the rows, from row (1-based); a '/' follows all but the last
RECURSIVE RowsToFen(_, _, _)
RowsToFen(m, row, fenStr) ==
  IF row > BoardSize THEN fenStr
  ELSE RowsToFen(m, row + 1,
                 fenStr \o RowToFen(m[row], 1, <<>>, 0)
                        \o (IF row < BoardSize THEN <<"/">> ELSE <<>>))

pieceMapToFen(m) == RowsToFen(m, 1, <<>>)

\* fen.split('/')
RECURSIVE SplitRows(_, _)
SplitRows(fenStr, rowData) ==
  IF fenStr = <<>> THEN <<rowData>>
  ELSE IF Head(fenStr) = "/" THEN <<rowData>> \o SplitRows(Tail(fenStr), <<>>)
  ELSE SplitRows(Tail(fenStr), rowData \o <<Head(fenStr)>>)

\* k empty squares pushed on the row
Empties(k) == [j \in 1..k |-> EmptyCell]

\* the loop over the characters of one row of the FEN
RECURSIVE RowFromFen(_)
RowFromFen(rowData) ==
  IF rowData = <<>> THEN <<>>
  ELSE LET char == Head(rowData)
       IN (IF char \in Ranks
           THEN Empties(parseInt(char))
           ELSE <<OrElse(Lookup(REVERSE_PIECE_MAP, <<char>>), EmptyCell)>>)
            \o RowFromFen(Tail(rowData))

\* reading rows[i].length of a row the FEN does not have throws
TypeError == <<"TypeError">>

fenToPieceMap(fenStr) ==
  LET rows == SplitRows(fenStr, <<>>)
  IN IF Len(rows) < BoardSize THEN TypeError
     ELSE [i \in 1..BoardSize |-> RowFromFen(rows[i])]

\* the piece maps converted: the starting position and the empty board, with
\* one row replaced by every arrangement of white pawns and empty squares
startingPieceMap ==
  <<<<<<"b","r">>, <<"b","n">>, <<"b","b">>, <<"b","q">>, <<"b","k">>, <<"b","b">>, <<"b","n">>, <<"b","r">>>>,
    <<<<"b","p">>, <<"b","p">>, <<"b","p">>, <<"b","p">>, <<"b","p">>, <<"b","p">>, <<"b","p">>, <<"b","p">>>>,
    Empties(BoardSize), Empties(BoardSize), Empties(BoardSize), Empties(BoardSize),
    <<<<"w","p">>, <<"w","p">>, <<"w","p">>, <<"w","p">>, <<"w","p">>, <<"w","p">>, <<"w","p">>, <<"w","p">>>>,
    <<<<"w","r">>, <<"w","n">>, <<"w","b">>, <<"w","q">>, <<"w","k">>, <<"w","b">>, <<"w","n">>, <<"w","r">>>>>>

emptyPieceMap == [i \in 1..BoardSize |-> Empties(BoardSize)]

RowArrangements == [1..BoardSize -> {EmptyCell, <<"w","p">>}]

PieceMaps ==
  {[base EXCEPT ![r] = row] :
     base \in {startingPieceMap, emptyPieceMap}, r \in 1..BoardSize,
     row \in RowArrangements}

InitBoard ==
  /\ op = "new"
  /\ pieceMap \in PieceMaps
  /\ fen = <<>>
  /\ convertedMap = <<>>
  /\ transcript = <<>>
  /\ context = NoContext
  /\ cleaned = <<>>
  /\ result = NoResult
  /\ sanToConfirm = <<>>
  /\ NewTTSConfirmation
  /\ NewVoiceBridge
  /\ NewGameBus

\* fen = BoardAdapter.pieceMapToFen(pieceMap)
PieceMapToFen ==
  /\ op = "new"
  /\ op' = "pieceMapToFen"
  /\ fen' = pieceMapToFen(pieceMap)
  /\ UNCHANGED <<pieceMap, convertedMap, parserVars, ttsVars, bridgeVars, busVars>>

\* convertedMap = BoardAdapter.fenToPieceMap(fen)
FenToPieceMap ==
  /\ op = "pieceMapToFen"
  /\ op' = "fenToPieceMap"
  /\ convertedMap' = fenToPieceMap(fen)
  /\ UNCHANGED <<pieceMap, fen, parserVars, ttsVars, bridgeVars, busVars>>

NextBoard == PieceMapToFen \/ FenToPieceMap

SpecBoard == InitBoard /\ [][NextBoard]_vars

\* the cells a piece map may hold: the 12 piece codes and the empty code
PieceCodes == {kv[1] : kv \in PIECE_MAP}

\* C22: converting a piece map of piece codes and empty codes to FEN and the
\* FEN back gives the same piece map
C22_RoundTrip ==
  /\ op = "fenToPieceMap"
  /\ \A r \in 1..BoardSize : \A c \in 1..BoardSize : pieceMap[r][c] \in PieceCodes
  => convertedMap = pieceMap

\* a row that starts and ends with empty squares around pawns came back
C22_Witness ==
  /\ op = "fenToPieceMap"
  /\ pieceMap[5] = <<<<" "," ">>, <<" "," ">>, <<"w","p">>, <<" "," ">>, <<"w","p">>, <<"w","p">>, <<" "," ">>, <<" "," ">>>>
  /\ pieceMap[1] = startingPieceMap[1]
  /\ fen[10] = "p"
  /\ convertedMap = pieceMap

(***************************************************************************)
(* GameBus (src/src/ts/Utils/GameBus.ts): listeners maps an event name to  *)
(* the array of its callbacks.  A callback is named by a string; calling   *)
(* it is recorded with the data it was given.                              *)
(***************************************************************************)
\* most on/off calls made on one bus
MaxBusCalls == 3

BusEvents == {"move", "turn"}
Callbacks == {"onMove", "onTurn"}
BusData == {"e4", "white"}

\* the callback argument of off(event) is missing
NoCallback == "undefined"

\* on(event, callback) puts the callback in front of the array
on_Prepend(ls, event, callback) ==
  IF event \notin DOMAIN ls THEN (event :> <<callback>>) @@ ls
  ELSE [ls EXCEPT ![event] = <<callback>> \o @]

\* on(event, callback): the array is created if missing, the callback pushed
on(ls, event, callback) ==
  IF event \notin DOMAIN ls THEN (event :> <<callback>>) @@ ls
  ELSE [ls EXCEPT ![event] = Append(@, callback)]

\* off(event, callback?): nothing without an array for the event; with a
\* callback the array is filtered, without one it is emptied
off(ls, event, callback) ==
  IF event \notin DOMAIN ls THEN ls
  ELSE IF callback # NoCallback
       THEN [ls EXCEPT ![event] = SelectSeq(@, LAMBDA cb : cb # callback)]
       ELSE [ls EXCEPT ![event] = <<>>]

\* emit(event, data): the calls forEach makes, in the order of the array
emit(ls, event, data) ==
  IF event \in DOMAIN ls
  THEN [n \in 1..Len(ls[event]) |-> [callback |-> ls[event][n], data |-> data]]
  ELSE <<>>

BusCall(method, event, callback) ==
  [method |-> method, event |-> event, callback |-> callback]

InitBus ==
  /\ op = "new"
  /\ NewGameBus
  /\ transcript = <<>>
  /\ context = NoContext
  /\ cleaned = <<>>
  /\ result = NoResult
  /\ sanToConfirm = <<>>
  /\ NewTTSConfirmation
  /\ NewVoiceBridge
  /\ NoBoard

On ==
  /\ Len(busCalls) < MaxBusCalls
  /\ \E event \in BusEvents, callback \in Callbacks :
       /\ op' = "on"
       /\ listeners' = on(listeners, event, callback)
       /\ busCalls' = Append(busCalls, BusCall("on", event, callback))
       /\ busEvent' = NoEmit
       /\ invoked' = <<>>
  /\ UNCHANGED <<parserVars, ttsVars, bridgeVars, boardVars>>

Off ==
  /\ Len(busCalls) < MaxBusCalls
  /\ \E event \in BusEvents, callback \in Callbacks \cup {NoCallback} :
       /\ op' = "off"
       /\ listeners' = off(listeners, event, callback)
       /\ busCalls' = Append(busCalls, BusCall("off", event, callback))
       /\ busEvent' = NoEmit
       /\ invoked' = <<>>
  /\ UNCHANGED <<parserVars, ttsVars, bridgeVars, boardVars>>

Emit ==
  /\ \E event \in BusEvents, data \in BusData :
       /\ op' = "emit"
       /\ busEvent' = [event |-> event, data |-> data]
       /\ invoked' = emit(listeners, event, data)
  /\ UNCHANGED <<listeners, busCalls, parserVars, ttsVars, bridgeVars, boardVars>>

NextBus == On \/ Off \/ Emit

SpecBus == InitBus /\ [][NextBus]_vars

\* the callbacks registered for an event after a sequence of on/off calls,
\* one per registration, oldest first: on registers, off with a callback
\* removes that callback from the event, off without one removes them all
RECURSIVE Registered(_, _)
Registered(calls, event) ==
  IF calls = <<>> THEN <<>>
  ELSE LET before == Registered(SubSeq(calls, 1, Len(calls) - 1), event)
           call == calls[Len(calls)]
       IN IF call.event # event THEN before
          ELSE IF call.method = "on" THEN Append(before, call.callback)
          ELSE IF call.callback = NoCallback THEN <<>>
          ELSE SelectSeq(before, LAMBDA cb : cb # call.callback)

\* C23: emit calls the listeners registered for the event, once per
\* registration, in registration order, with the emitted data, and nothing
\* else
C23_Delivery ==
  op = "emit" =>
    LET registered == Registered(busCalls, busEvent.event)
    IN /\ Len(invoked) = Len(registered)
       /\ \A n \in 1..Len(registered) :
            invoked[n] = [callback |-> registered[n], data |-> busEvent.data]

\* two listeners on 'move' and one on 'turn': 'move' reaches the two, in order
C23_Witness ==
  /\ op = "emit"
  /\ busCalls = <<BusCall("on", "move", "onTurn"), BusCall("on", "turn", "onTurn"),
                 BusCall("on", "move", "onMove")>>
  /\ busEvent = [event |-> "move", data |-> "e4"]
  /\ invoked = <<[callback |-> "onTurn", data |-> "e4"],
                [callback |-> "onMove", data |-> "e4"]>>

====
